---- MODULE Spec2Model ----
(***************************************************************************)
(* Realtime streaming session layer of clientera-bot-v2.                   *)
(*                                                                         *)
(*   Spec          one OpenAIRealtimeClient (src/src/realtime/client.py)   *)
(*                 carrying one user's turns: transport, receive loop,     *)
(*                 monitor, reconnect task, StreamController, callbacks.   *)
(*   MuxSpec       the StreamControllers of two users on one client.       *)
(*   ReconnectSpec the connection of a client whose handshakes may fail.   *)
(*   PoolSpec      the RealtimeConnectionPool                              *)
(*                 (src/src/realtime/connection_pool.py); a pooled client  *)
(*                 is seen through what the pool reads: is_connected and   *)
(*                 user_id.                                                *)
(*                                                                         *)
(* Every handler runs to completion on the event loop before the next one  *)
(* starts; a transport that drops while a handler is suspended in a send   *)
(* is an input of the handler.                                             *)
(***************************************************************************)
EXTENDS Integers, Sequences, FiniteSets, TLC

\* ------------------------------------------------------------------ bounds
Users == {1, 2}                       \* user ids multiplexed on one client (MuxSpec)
Solo == {1}                           \* the user of the single-conversation Spec
Chars == {"a", "b"}                   \* alphabet of streamed text
MaxLen == 2                           \* characters of accumulated_text held at a time
MaxRids == 2                          \* response ids the upstream hands out
MaxConnectFailures == 10              \* failed connect() calls in a behaviour
MaxConnecting == 11                    \* connect() calls in flight at a time
MaxConns == 2                         \* ConnectionStatus objects the pool ever creates
MaxChurn == 3                         \* the same, in ChurnSpec
MaxUsersChoices == {1, 2}             \* values of max_users_per_connection tried
MaxClock == 1                         \* seconds the clock of DentalSpec advances
MaxSends == 3                         \* sends observed per connection (RateSpec)

\* ------------------------------------------------------- program constants
MaxReconnectAttempts == 10            \* _max_reconnect_attempts
MaxConsecutiveFailures == 5           \* "if self._consecutive_failures > 5"
DefaultMaxUsers == 20                 \* max_users_per_connection: int = 20

None == 0                             \* Python None for a response id
Rids == 1..MaxRids
Deltas == {<<c>> : c \in Chars}
FinalTexts == {<<>>, <<"a">>, <<"a", "b">>}

\* StreamState (events.py)
IDLE == "idle"
STREAMING == "streaming"
DONE == "done"
ERROR == "error"
CANCELLED == "cancelled"
Terminal == {DONE, ERROR, CANCELLED}

\* ------------------------------------------------------------------- state
VARIABLES
    \* --- OpenAIRealtimeClient
    active_streams,        \* dict user_id -> StreamController, in insertion order
    is_connected,          \* self.is_connected
    ws_open,               \* self.websocket and not self.websocket.closed
    should_reconnect,      \* self._should_reconnect
    reconnecting,          \* self._reconnecting
    reconnect_task,        \* position of the _reconnect task: none/start/sleeping
    listening,             \* the _listen_events task is alive
    monitoring,            \* the _monitor_connection task is alive
    reconnect_attempts,    \* self._reconnect_attempts
    consecutive_failures,  \* self._consecutive_failures
    circuit_breaker_open,  \* self._circuit_breaker_open
    has_last_reconnect,    \* self._last_reconnect_time is not None
    next_rid,              \* next response id the upstream will create
    owner,                 \* where the upstream's requests are followed: response
                           \* id -> user whose response.create it answers, 0 else
    connect_failures,      \* failed connect() calls so far (bounds the run)
    connecting,            \* connect() calls waiting in "await websockets.connect(...)"
    pending_function_calls,  \* self.pending_function_calls: the call ids it holds
    bridge,                \* where _handle_function_call_done stands, see Idle
    watchdogs,             \* response ids whose _monitor_response_timeout task sleeps
    \* --- what the last operation did
    sent,                  \* _send_event calls of the last operation, in order
    fired,                 \* callbacks invoked by the last operation, in order
    removed,               \* controllers the last operation took out of active_streams,
                           \* each as <user_id, state> at the moment it left
    last_op,               \* the last operation and how it ended
    \* --- RealtimeConnectionPool
    connections,           \* self.connections: list of ConnectionStatus
    user_connections,      \* self.user_connections: user_id -> ConnectionStatus
    next_oid,              \* identity of the next ConnectionStatus object
    max_users_per_connection,  \* self.max_users_per_connection (constructor argument)
    pool_op,               \* the pool's last operation and what it returned
    lock,                  \* self._lock: the task holding it, 0 when it is free
    tasks,                 \* the calls of the pool that stand at an await
    \* --- DentalRealtimeClient (dental_bot.py); its transport is seen through
    \* is_connected, ws_open and listening, its sleeping listener through
    \* reconnect_task, the upstream through next_rid
    dental_streams,        \* self.active_streams: user_id -> stream_data, in insertion order
    response_to_user,      \* self.response_to_user: response id -> user_id, 0 when absent
    completed_responses,   \* self.completed_responses
    dental_clock           \* int(asyncio.get_event_loop().time())

client_vars == <<active_streams, is_connected, ws_open, should_reconnect, reconnecting,
                 reconnect_task, listening, monitoring, reconnect_attempts,
                 consecutive_failures, circuit_breaker_open, has_last_reconnect,
                 next_rid, connect_failures, connecting,
                 pending_function_calls, bridge, watchdogs, owner>>
out_vars == <<sent, fired, removed, last_op>>
lock_vars == <<lock, tasks>>
pool_vars == <<connections, user_connections, next_oid, max_users_per_connection,
               pool_op, lock_vars>>
dental_vars == <<dental_streams, response_to_user, completed_responses, dental_clock>>
vars == <<client_vars, out_vars, pool_vars, dental_vars, owner>>

\* --------------------------------------------------------------- helpers
Min(S) == CHOOSE x \in S : \A y \in S : x <= y

RemoveAt(s, i) == SubSeq(s, 1, i - 1) \o SubSeq(s, i + 1, Len(s))

\* position of user u's controller in active_streams, 0 when there is none
IndexOfUser(streams, u) ==
    LET hit == {i \in 1..Len(streams) : streams[i].user_id = u}
    IN IF hit = {} THEN 0 ELSE Min(hit)

\* StreamController(user_id=..., state=IDLE): the fields of a new turn
NewStream(u) ==
    [user_id |-> u, response_id |-> None, state |-> IDLE, accumulated_text |-> <<>>,
     callbacks |-> FALSE, done_fired |-> FALSE, error_fired |-> FALSE]

\* an operation: its name, user, response id, text argument, and whether it
\* returned (ok) or raised
Op(name, u, rid, arg, ok) ==
    [op |-> name, user |-> u, rid |-> rid, arg |-> arg, ok |-> ok]

Msg(type, ok) == [type |-> type, ok |-> ok]

\* ----------------------------------------- _find_stream_by_response_id
\* first loop: exact match on response_id
ExactMatches(streams, rid) ==
    {i \in 1..Len(streams) : streams[i].response_id = rid}

\* second loop: an IDLE/STREAMING controller that has no response id yet
Unbound(streams) ==
    {i \in 1..Len(streams) :
        /\ streams[i].response_id = None
        /\ streams[i].state \in {IDLE, STREAMING}}

\* index of the controller the lookup returns, 0 for None
FindStreamIndex(streams, rid) ==
    IF ExactMatches(streams, rid) # {} THEN Min(ExactMatches(streams, rid))
    ELSE IF Unbound(streams) # {} THEN Min(Unbound(streams))
    ELSE 0

\* the lookup's side effect: the fallback binds rid to the controller it returns
AfterFind(streams, rid) ==
    IF ExactMatches(streams, rid) = {} /\ Unbound(streams) # {}
    THEN [streams EXCEPT ![Min(Unbound(streams))].response_id = rid]
    ELSE streams

\* --------------------------------------------------- inbound event handlers
\* a text-delta handler that keeps only the last delta
ApplyTextDeltaOverwrite(streams, rid, d) ==
    LET i == FindStreamIndex(streams, rid)
        s1 == AfterFind(streams, rid)
    IN IF i = 0 THEN s1
       ELSE [s1 EXCEPT ![i].accumulated_text = d, ![i].state = STREAMING]

\* _handle_text_delta: the controllers after the event
ApplyTextDelta(streams, rid, d) ==
    LET i == FindStreamIndex(streams, rid)
        s1 == AfterFind(streams, rid)
    IN IF i = 0 THEN s1
       ELSE [s1 EXCEPT ![i].accumulated_text = @ \o d, ![i].state = STREAMING]

\* a delta callback that is handed the text as it was before its delta
FiredTextDeltaStale(streams, rid, d) ==
    LET i == FindStreamIndex(streams, rid)
    IN IF i # 0 /\ streams[i].callbacks
       THEN <<[cb |-> "delta", user |-> streams[i].user_id,
               arg |-> streams[i].accumulated_text]>>
       ELSE <<>>

\* _handle_text_delta: the delta callback, when one is set
FiredTextDelta(streams, rid, d) ==
    LET i == FindStreamIndex(streams, rid)
    IN IF i # 0 /\ streams[i].callbacks
       THEN <<[cb |-> "delta", user |-> streams[i].user_id,
               arg |-> streams[i].accumulated_text \o d]>>
       ELSE <<>>

\* _handle_text_done: the controllers after the event
ApplyTextDone(streams, rid, text) ==
    LET i == FindStreamIndex(streams, rid)
        s1 == AfterFind(streams, rid)
    IN IF i = 0 THEN s1
       ELSE IF s1[i].state = DONE THEN s1
       ELSE [s1 EXCEPT ![i].accumulated_text = text,
                       ![i].state = DONE,
                       ![i].done_fired = @ \/ s1[i].callbacks]

\* _handle_text_done: the done callback, when one is set and the turn is not DONE
FiredTextDone(streams, rid, text) ==
    LET i == FindStreamIndex(streams, rid)
    IN IF i # 0 /\ streams[i].state # DONE /\ streams[i].callbacks
       THEN <<[cb |-> "done", user |-> streams[i].user_id, arg |-> text]>>
       ELSE <<>>

\* _handle_response_done: only a STREAMING controller is moved to DONE
ApplyResponseDone(streams, rid) ==
    LET i == FindStreamIndex(streams, rid)
        s1 == AfterFind(streams, rid)
    IN IF i # 0 /\ s1[i].state = STREAMING
       THEN [s1 EXCEPT ![i].state = DONE]
       ELSE s1

\* _handle_response_created: the first controller that is not terminal gets rid
NonTerminal(streams) ==
    {i \in 1..Len(streams) : streams[i].state \notin Terminal}

ApplyResponseCreated(streams, rid) ==
    IF NonTerminal(streams) = {} THEN streams
    ELSE [streams EXCEPT ![Min(NonTerminal(streams))].response_id = rid]

\* _handle_error: every STREAMING controller goes to ERROR
ApplyError(streams) ==
    [i \in 1..Len(streams) |->
        IF streams[i].state = STREAMING
        THEN [streams[i] EXCEPT !.state = ERROR,
                                !.error_fired = @ \/ streams[i].callbacks]
        ELSE streams[i]]

RECURSIVE FiredErrorFrom(_, _)
FiredErrorFrom(streams, i) ==
    IF i > Len(streams) THEN <<>>
    ELSE (IF streams[i].state = STREAMING /\ streams[i].callbacks
          THEN <<[cb |-> "error", user |-> streams[i].user_id, arg |-> <<>>]>>
          ELSE <<>>) \o FiredErrorFrom(streams, i + 1)

\* an error handler that calls the error callback of every controller
FiredErrorAll(streams) ==
    [i \in 1..Len(streams) |-> [cb |-> "error", user |-> streams[i].user_id, arg |-> <<>>]]

FiredError(streams) == FiredErrorFrom(streams, 1)

\* _listen_events, reconnect disabled: STREAMING controllers are marked ERROR,
\* no callback is invoked
MarkStreamingError(streams) ==
    [i \in 1..Len(streams) |->
        IF streams[i].state = STREAMING
        THEN [streams[i] EXCEPT !.state = ERROR]
        ELSE streams[i]]

\* ------------------------------------------------------------ cancel_stream
\* a cancel_stream that sends response.cancel before it looks for the controller
CancelSendsBlind(streams, u, open) ==
    LET i == IndexOfUser(streams, u)
    IN IF i = 0 THEN <<Msg("response.cancel", open)>>
       ELSE IF streams[i].state \in Terminal THEN <<>>
       ELSE IF streams[i].response_id # None
            THEN <<Msg("response.cancel", open)>>
            ELSE <<>>

\* a cancel_stream that does not look at response_id
CancelSendsNoIdCheck(streams, u, open) ==
    LET i == IndexOfUser(streams, u)
    IN IF i = 0 THEN <<>>
       ELSE IF streams[i].state \in Terminal THEN <<>>
       ELSE <<Msg("response.cancel", open)>>

\* the _send_event calls cancel_stream(u) makes; open: the transport takes them
CancelSends(streams, u, open) ==
    LET i == IndexOfUser(streams, u)
    IN IF i = 0 THEN <<>>
       ELSE IF streams[i].state \in Terminal THEN <<>>
       ELSE IF streams[i].response_id # None
            THEN <<Msg("response.cancel", open)>>
            ELSE <<>>

\* what is recorded of a controller that leaves active_streams
Leaving(stream) == [user_id |-> stream.user_id, state |-> stream.state]

\* the controller cancel_stream(u) takes out of active_streams, as it leaves it:
\* a send that raises skips "stream.state = CANCELLED"
CancelRemoved(streams, u, open) ==
    LET i == IndexOfUser(streams, u)
    IN IF i = 0 THEN <<>>
       ELSE IF streams[i].state \in Terminal THEN <<Leaving(streams[i])>>
       ELSE IF streams[i].response_id # None /\ ~open THEN <<Leaving(streams[i])>>
       ELSE <<Leaving([streams[i] EXCEPT !.state = CANCELLED, !.response_id = None])>>

\* a cancel_stream that leaves the controller in active_streams
CancelStreamsKeeps(streams, u) == streams

\* active_streams after cancel_stream(u)
CancelStreams(streams, u) ==
    LET i == IndexOfUser(streams, u)
    IN IF i = 0 THEN streams ELSE RemoveAt(streams, i)

\* _handle_function_call_done is not running (the receive loop waits for a
\* message); otherwise stage is "executing" while it awaits the handler and
\* "sleeping" while _send_function_result awaits asyncio.sleep(0.2), call is the
\* call id, failed says that the "except" clause is the one sending, and live
\* remembers for the properties that a turn was open when the event arrived, and
\* origin the user whose controller held the event's response_id (0: none, or
\* not observed)
Idle == [stage |-> "idle", call |-> 0, failed |-> FALSE, live |-> FALSE, origin |-> 0]

\* "if stream.state not in [DONE, ERROR, CANCELLED]" finds a controller
HasActiveStreamAlways(streams) == TRUE

HasActiveStream(streams) ==
    \E i \in 1..Len(streams) : streams[i].state \notin Terminal

\* ------------------------------------------------- connection of the client
\* the fields connect(), the receive loop, the monitor and _reconnect work on
Conn ==
    [is_connected |-> is_connected, ws_open |-> ws_open, listening |-> listening,
     monitoring |-> monitoring, reconnect_attempts |-> reconnect_attempts,
     connect_failures |-> connect_failures, connecting |-> connecting,
     pending_function_calls |-> pending_function_calls, bridge |-> bridge,
     watchdogs |-> watchdogs,
     reconnect_task |-> reconnect_task,
     reconnecting |-> reconnecting]

SetConn(c) ==
    /\ is_connected' = c.is_connected
    /\ ws_open' = c.ws_open
    /\ listening' = c.listening
    /\ monitoring' = c.monitoring
    /\ reconnect_attempts' = c.reconnect_attempts
    /\ connect_failures' = c.connect_failures
    /\ connecting' = c.connecting
    /\ pending_function_calls' = c.pending_function_calls
    /\ bridge' = c.bridge
    /\ watchdogs' = c.watchdogs
    /\ reconnect_task' = c.reconnect_task
    /\ reconnecting' = c.reconnecting

\* _cleanup_tasks: cancels the listen, reconnect and monitor tasks. A reconnect task
\* cancelled in its sleep runs its "finally" (_reconnecting = False); one cancelled
\* before its first step never runs; the reconnect task cancelling itself swallows
\* the cancellation at "await task" and goes on.
CleanupTasks(c, in_reconnect) ==
    [c EXCEPT !.listening = FALSE,
              !.bridge = Idle,
              !.monitoring = FALSE,
              !.reconnect_task = IF in_reconnect THEN @ ELSE "none",
              !.reconnecting = IF ~in_reconnect /\ c.reconnect_task = "sleeping"
                               THEN FALSE ELSE @]

\* connect(): ok is whether the handshake succeeds
ConnectResult(c, ok, in_reconnect) ==
    IF c.is_connected /\ c.ws_open THEN c
    ELSE LET k == CleanupTasks(c, in_reconnect)
         IN IF ok
            THEN [k EXCEPT !.is_connected = TRUE, !.ws_open = TRUE,
                           !.reconnect_attempts = 0,
                           !.listening = TRUE, !.monitoring = TRUE]
            ELSE [k EXCEPT !.is_connected = FALSE,
                           !.reconnect_attempts = @ + 1,
                           !.connect_failures = @ + 1]

\* a connect() that does something may fail only while the run's budget lasts
ConnectOutcomes(c) ==
    IF c.is_connected /\ c.ws_open THEN {TRUE}
    ELSE IF c.connect_failures < MaxConnectFailures THEN {TRUE, FALSE}
    ELSE {TRUE}

\* _trigger_reconnection
TriggerReconnection(c) ==
    IF c.reconnecting THEN c
    ELSE [c EXCEPT !.reconnecting = TRUE, !.reconnect_task = "start"]

breaker_vars == <<should_reconnect, consecutive_failures, circuit_breaker_open,
                  has_last_reconnect>>

NoOutput(op) ==
    /\ sent' = <<>>
    /\ fired' = <<>>
    /\ removed' = <<>>
    /\ last_op' = op

\* -------------------------------------------------------------------- Init
\* OpenAIRealtimeClient.__init__, nothing sent or received yet
InitClient ==
    /\ active_streams = <<>>
    /\ is_connected = FALSE
    /\ ws_open = FALSE
    /\ should_reconnect = TRUE
    /\ reconnecting = FALSE
    /\ reconnect_task = "none"
    /\ listening = FALSE
    /\ monitoring = FALSE
    /\ reconnect_attempts = 0
    /\ consecutive_failures = 0
    /\ circuit_breaker_open = FALSE
    /\ has_last_reconnect = FALSE
    /\ next_rid = 1
    /\ owner = [r \in Rids |-> 0]
    /\ connect_failures = 0
    /\ connecting = 0
    /\ pending_function_calls = {}
    /\ bridge = Idle
    /\ watchdogs = {}
    /\ sent = <<>>
    /\ fired = <<>>
    /\ removed = <<>>
    /\ last_op = Op("init", 0, None, <<>>, TRUE)

\* the asyncio tasks that call the pool at the same time, and a task outside a call
Tasks == {1, 2}
NoCall == [pc |-> "idle", user |-> 0, op |-> "none", conn |-> 0]

\* RealtimeConnectionPool.__init__ with max_users_per_connection = max
InitPool(max) ==
    /\ connections = <<>>
    /\ user_connections = [u \in Users |-> 0]
    /\ next_oid = 1
    /\ max_users_per_connection = max
    /\ pool_op = [op |-> "init", user |-> 0, conn_id |-> -1, created |-> FALSE,
                  ok |-> TRUE, task |-> 0]
    /\ lock = 0
    /\ tasks = [t \in Tasks |-> NoCall]

\* response_id = f"resp_{user_id}_{int(current_time)}": the id send_user_message
\* makes up for a turn, one per user and second
InternalId(u, t) == 10 * (t + 1) + u
InternalIds == {InternalId(u, t) : u \in Users, t \in 0..MaxClock}

\* DentalRealtimeClient.__init__
InitDental ==
    /\ dental_streams = <<>>
    /\ response_to_user = [r \in Rids \cup InternalIds |-> 0]
    /\ completed_responses = {}
    /\ dental_clock = 0

\* a client, beside a pool made with the default max_users_per_connection
Init == InitClient /\ InitPool(DefaultMaxUsers) /\ InitDental

\* a pool made with a small max_users_per_connection
PoolInit == InitClient /\ (\E max \in MaxUsersChoices : InitPool(max)) /\ InitDental

\* ------------------------------------------------------- public operations
\* connect()
Connect(ok) ==
    /\ ok \in ConnectOutcomes(Conn)
    /\ SetConn(ConnectResult(Conn, ok, FALSE))
    /\ sent' = IF ok /\ ~(is_connected /\ ws_open)
               THEN <<Msg("session.update", TRUE)>> ELSE <<>>
    /\ fired' = <<>>
    /\ removed' = <<>>
    /\ last_op' = Op("connect", 0, None, <<>>, ok)
    /\ UNCHANGED <<active_streams, breaker_vars, next_rid, pool_vars, dental_vars, owner>>

\* connect() of a caller whose handshake overlaps other work of the client, up to
\* "await websockets.connect(...)": the early return, then _cleanup_tasks
ConnectStart ==
    /\ ~(is_connected /\ ws_open)
    /\ connecting < MaxConnecting
    /\ SetConn([CleanupTasks(Conn, FALSE) EXCEPT !.connecting = @ + 1])
    /\ NoOutput(Op("connect_start", 0, None, <<>>, TRUE))
    /\ UNCHANGED <<active_streams, breaker_vars, next_rid, pool_vars, dental_vars, owner>>

\* the handshake of such a connect() ends. Of the calls in flight together at most
\* one succeeds: a second success would start a second pair of tasks.
ConnectFinish(ok) ==
    LET c == [Conn EXCEPT !.connecting = @ - 1]
    IN /\ connecting > 0
       /\ IF ok THEN ~listening /\ ~monitoring
                ELSE connect_failures < MaxConnectFailures
       /\ SetConn(IF ok
                  THEN [c EXCEPT !.is_connected = TRUE, !.ws_open = TRUE,
                                 !.reconnect_attempts = 0,
                                 !.listening = TRUE, !.monitoring = TRUE]
                  ELSE [c EXCEPT !.is_connected = FALSE,
                                 !.reconnect_attempts = @ + 1,
                                 !.connect_failures = @ + 1])
       /\ sent' = IF ok THEN <<Msg("session.update", TRUE)>> ELSE <<>>
       /\ fired' = <<>>
       /\ removed' = <<>>
       /\ last_op' = Op("connect_finish", 0, None, <<>>, ok)
       /\ UNCHANGED <<active_streams, breaker_vars, next_rid, pool_vars, dental_vars, owner>>

\* disconnect(); close_error: the receive loop sees the close as an error before
\* it is cancelled (reconnect is disabled by then, so it marks STREAMING as ERROR)
Disconnect(close_error) ==
    /\ close_error => (listening /\ ws_open)
    /\ should_reconnect' = FALSE
    /\ reconnecting' = FALSE
    /\ circuit_breaker_open' = FALSE
    /\ consecutive_failures' = 0
    /\ ws_open' = FALSE
    /\ listening' = FALSE
    /\ monitoring' = FALSE
    /\ reconnect_task' = "none"
    /\ is_connected' = FALSE
    /\ active_streams' = <<>>
    /\ removed' = LET gone == IF close_error THEN MarkStreamingError(active_streams)
                               ELSE active_streams
                   IN [i \in 1..Len(gone) |-> Leaving(gone[i])]
    /\ sent' = <<>>
    /\ fired' = <<>>
    /\ last_op' = Op("disconnect", 0, None, <<>>, TRUE)
    /\ pending_function_calls' = {}
    /\ bridge' = Idle
    /\ UNCHANGED watchdogs
    /\ UNCHANGED <<reconnect_attempts, connect_failures, connecting, has_last_reconnect,
                   next_rid, pool_vars, dental_vars, owner>>

\* send_user_message(user_id, text). ok: outcome of the connect() that
\* ensure_connected makes when the client is not connected; fail_at: 0 when both
\* sends go out, 1 (2) when the transport drops at the first (second) send.
SendUserMessage(u, ok, fail_at) ==
    LET c1 == ConnectResult(Conn, ok, FALSE)
        base == CancelStreams(active_streams, u)
        cancels == CancelSends(active_streams, u, TRUE)
        hello == IF is_connected /\ ws_open THEN <<>>
                 ELSE <<Msg("session.update", TRUE)>>
        item(good) == Msg("conversation.item.create", good)
        create(good) == Msg("response.create", good)
    IN /\ ok \in ConnectOutcomes(Conn)
       /\ ~ok => fail_at = 0
       /\ IF ~ok
          THEN /\ SetConn(c1)
               /\ UNCHANGED active_streams
               /\ NoOutput(Op("send_user_message", u, None, <<>>, FALSE))
          ELSE /\ SetConn(IF fail_at = 0 THEN c1 ELSE [c1 EXCEPT !.ws_open = FALSE])
               /\ active_streams' =
                    Append(base, IF fail_at = 0 THEN NewStream(u)
                                 ELSE [NewStream(u) EXCEPT !.state = ERROR])
               /\ sent' = hello \o cancels \o
                          (CASE fail_at = 0 -> <<item(TRUE), create(TRUE)>>
                             [] fail_at = 1 -> <<item(FALSE)>>
                             [] fail_at = 2 -> <<item(TRUE), create(FALSE)>>)
               /\ removed' = CancelRemoved(active_streams, u, TRUE)
               /\ fired' = <<>>
               /\ last_op' = Op("send_user_message", u, None, <<>>, fail_at = 0)
       /\ UNCHANGED <<breaker_vars, next_rid, pool_vars, dental_vars, owner>>

\* cancel_stream(user_id)
CancelStream(u) ==
    /\ active_streams' = CancelStreams(active_streams, u)
    /\ sent' = CancelSends(active_streams, u, ws_open)
    /\ removed' = CancelRemoved(active_streams, u, ws_open)
    /\ fired' = <<>>
    /\ last_op' = Op("cancel_stream", u, None, <<>>, TRUE)
    /\ UNCHANGED <<is_connected, ws_open, should_reconnect, reconnecting,
                   reconnect_task, listening, monitoring, reconnect_attempts,
                   consecutive_failures, circuit_breaker_open, has_last_reconnect,
                   next_rid, connect_failures, connecting,
                   pending_function_calls, bridge, watchdogs, pool_vars, dental_vars, owner>>

\* set_stream_callbacks(user_id, on_delta, on_done, on_error), all three given
SetStreamCallbacks(u) ==
    LET i == IndexOfUser(active_streams, u)
    IN /\ i # 0
       /\ ~active_streams[i].callbacks
       /\ active_streams' = [active_streams EXCEPT ![i].callbacks = TRUE]
       /\ NoOutput(Op("set_stream_callbacks", u, None, <<>>, TRUE))
       /\ UNCHANGED <<is_connected, ws_open, should_reconnect, reconnecting,
                      reconnect_task, listening, monitoring, reconnect_attempts,
                      consecutive_failures, circuit_breaker_open, has_last_reconnect,
                      next_rid, connect_failures, connecting,
                      pending_function_calls, bridge, watchdogs, pool_vars, dental_vars, owner>>

\* cleanup_finished_streams(): drops the terminal controllers older than 60 s;
\* old is the set of positions whose created_at is that old
CleanupFinishedStreams(old) ==
    LET gone == {i \in old : active_streams[i].state \in Terminal}
        keep == {i \in 1..Len(active_streams) : i \notin gone}
        RECURSIVE Pick(_)
        Pick(i) == IF i > Len(active_streams) THEN <<>>
                   ELSE (IF i \in keep THEN <<active_streams[i]>> ELSE <<>>) \o Pick(i + 1)
        RECURSIVE Drop(_)
        Drop(i) == IF i > Len(active_streams) THEN <<>>
                   ELSE (IF i \in gone THEN <<Leaving(active_streams[i])>> ELSE <<>>)
                        \o Drop(i + 1)
    IN /\ gone # {}
       /\ active_streams' = Pick(1)
       /\ removed' = Drop(1)
       /\ sent' = <<>>
       /\ fired' = <<>>
       /\ last_op' = Op("cleanup_finished_streams", 0, None, <<>>, TRUE)
       /\ UNCHANGED <<is_connected, ws_open, should_reconnect, reconnecting,
                      reconnect_task, listening, monitoring, reconnect_attempts,
                      consecutive_failures, circuit_breaker_open, has_last_reconnect,
                      next_rid, connect_failures, connecting,
                      pending_function_calls, bridge, watchdogs, pool_vars, dental_vars, owner>>

\* ------------------------------------------------------------ receive loop
\* _listen_events hands a message to _handle_event only while is_connected, and
\* reads the next message when the handler of the last one has returned
Receiving == listening /\ is_connected /\ ws_open /\ bridge = Idle

conn_vars == <<is_connected, ws_open, should_reconnect, reconnecting,
               reconnect_task, listening, monitoring, reconnect_attempts,
               consecutive_failures, circuit_breaker_open, has_last_reconnect,
               connect_failures, connecting,
               pending_function_calls, bridge, watchdogs>>

RECURSIVE TextHeld(_, _)
TextHeld(streams, i) ==
    IF i > Len(streams) THEN 0
    ELSE Len(streams[i].accumulated_text) + TextHeld(streams, i + 1)

WithinBounds(streams) == TextHeld(streams, 1) <= MaxLen

\* "stream.response_created_at = datetime.utcnow()": StreamController is a
\* pydantic model without that field and without extra = "allow", the assignment
\* raises ValueError and the attribute is never there
HasResponseCreatedAt(stream) == FALSE

\* _handle_response_created ends in "asyncio.create_task(
\* self._monitor_response_timeout(response_id))" unless the assignment above
\* raised, which it does when a controller was found
WatchdogStarted(streams) ==
    NonTerminal(streams) = {} \/ HasResponseCreatedAt(streams[Min(NonTerminal(streams))])

\* response.created: the upstream opens a response under a fresh id. watched: the
\* behaviour follows the watchdog task, if one is started
\* followed: the response answers the response.create of the one turn that has
\* no response id yet, and owner records that turn's user
Awaiting(streams) ==
    {i \in 1..Len(streams) :
        streams[i].response_id = None /\ streams[i].state \notin Terminal}

ResponseCreatedFor(watched, followed) ==
    /\ Receiving
    /\ next_rid <= MaxRids
    /\ active_streams' = ApplyResponseCreated(active_streams, next_rid)
    /\ next_rid' = next_rid + 1
    /\ SetConn(IF watched /\ WatchdogStarted(active_streams)
               THEN [Conn EXCEPT !.watchdogs = @ \cup {next_rid}] ELSE Conn)
    /\ NoOutput(Op("response.created", 0, next_rid, <<>>, TRUE))
    /\ IF followed
       THEN /\ Cardinality(Awaiting(active_streams)) = 1
            /\ owner' = [owner EXCEPT ![next_rid] =
                            active_streams[Min(Awaiting(active_streams))].user_id]
       ELSE UNCHANGED owner
    /\ UNCHANGED <<breaker_vars, pool_vars, dental_vars>>

ResponseCreated(watched) == ResponseCreatedFor(watched, FALSE)

RecvResponseCreated == ResponseCreated(FALSE)

\* _monitor_response_timeout(response_id) after "await asyncio.sleep(20)": nothing
\* is sent unless the controller found is without text, not terminal and has
\* response_created_at; then response.cancel, a second's sleep and response.create
WatchdogSends(streams, rid, open) ==
    LET i == FindStreamIndex(streams, rid)
    IN IF i = 0 THEN <<>>
       ELSE IF streams[i].accumulated_text # <<>> THEN <<>>
       ELSE IF streams[i].state \in Terminal THEN <<>>
       ELSE IF ~HasResponseCreatedAt(streams[i]) THEN <<>>
       ELSE IF open THEN <<Msg("response.cancel", TRUE), Msg("response.create", TRUE)>>
       ELSE <<Msg("response.cancel", FALSE)>>

WatchdogFires(rid) ==
    /\ rid \in watchdogs
    /\ SetConn([Conn EXCEPT !.watchdogs = @ \ {rid}])
    /\ active_streams' = AfterFind(active_streams, rid)
    /\ sent' = WatchdogSends(active_streams, rid, ws_open)
    /\ fired' = <<>>
    /\ removed' = <<>>
    /\ last_op' = Op("watchdog_fires", 0, rid, <<>>, TRUE)
    /\ UNCHANGED <<breaker_vars, next_rid, pool_vars, dental_vars, owner>>

\* response.text.delta for a response id the upstream has created
RecvTextDelta(rid, d) ==
    /\ Receiving
    /\ rid < next_rid
    /\ WithinBounds(ApplyTextDelta(active_streams, rid, d))
    /\ active_streams' = ApplyTextDelta(active_streams, rid, d)
    /\ fired' = FiredTextDelta(active_streams, rid, d)
    /\ sent' = <<>>
    /\ removed' = <<>>
    /\ last_op' = Op("response.text.delta", 0, rid, d, TRUE)
    /\ UNCHANGED <<conn_vars, next_rid, pool_vars, dental_vars, owner>>

\* response.text.done
RecvTextDone(rid, text) ==
    /\ Receiving
    /\ rid < next_rid
    /\ WithinBounds(ApplyTextDone(active_streams, rid, text))
    /\ active_streams' = ApplyTextDone(active_streams, rid, text)
    /\ fired' = FiredTextDone(active_streams, rid, text)
    /\ sent' = <<>>
    /\ removed' = <<>>
    /\ last_op' = Op("response.text.done", 0, rid, text, TRUE)
    /\ UNCHANGED <<conn_vars, next_rid, pool_vars, dental_vars, owner>>

\* response.done
RecvResponseDone(rid) ==
    /\ Receiving
    /\ rid < next_rid
    /\ active_streams' = ApplyResponseDone(active_streams, rid)
    /\ NoOutput(Op("response.done", 0, rid, <<>>, TRUE))
    /\ UNCHANGED <<conn_vars, next_rid, pool_vars, dental_vars, owner>>

\* error
RecvError ==
    /\ Receiving
    /\ WithinBounds(ApplyError(active_streams))
    /\ active_streams' = ApplyError(active_streams)
    /\ fired' = FiredError(active_streams)
    /\ sent' = <<>>
    /\ removed' = <<>>
    /\ last_op' = Op("error", 0, None, <<>>, TRUE)
    /\ UNCHANGED <<conn_vars, next_rid, pool_vars, dental_vars, owner>>

\* ------------------------------------------------------ function-call bridge
Calls == {1}

FunctionOutput(ok) == Msg("function_call_output", ok)

\* an _execute_function_call that lets the handler's exception through
ExecuteFunctionCallPropagates(known, handler_ok) ==
    [invoked |-> known, raised |-> ~known \/ ~handler_ok,
     result |-> IF known /\ handler_ok THEN "success" ELSE "error"]

\* _execute_function_call(function_name, arguments). known: the name is a key of
\* function_mapping; handler_ok: the handler returns. A name that is not mapped
\* raises ValueError before any handler is looked up; the handler's exception
\* becomes {"success": False, "error": str(e)}. result "error" stands for what
\* the caller sends when this raised: {"error": "Ошибка выполнения функции: ..."}
ExecuteFunctionCall(known, handler_ok) ==
    [invoked |-> known, raised |-> ~known,
     result |-> IF ~known THEN "error"
                ELSE IF handler_ok THEN "success" ELSE "failure"]

\* _handle_function_call_delta: the call id gets an entry
RecvFunctionCallDelta(call) ==
    /\ Receiving
    /\ SetConn([Conn EXCEPT !.pending_function_calls = @ \cup {call}])
    /\ NoOutput(Op("response.function_call_arguments.delta", 0, None, <<>>, TRUE))
    /\ UNCHANGED <<active_streams, breaker_vars, next_rid, pool_vars, dental_vars, owner>>

\* the user whose controller is bound to response rid, 0 when there is none;
\* the handler never looks this up
OriginOf(streams, rid) ==
    IF rid = None \/ ExactMatches(streams, rid) = {} THEN 0
    ELSE streams[Min(ExactMatches(streams, rid))].user_id

\* _handle_function_call_done up to its first await, for an event of response
\* rid. parses: json.loads accepts the arguments; known: the name is a key of
\* function_mapping. A known function is called ("await func(**arguments)");
\* otherwise the exception is caught and _send_function_result sends the error
\* and sleeps.
FunctionCallDone(rid, call, parses, known) ==
    /\ Receiving
    /\ ~parses => known
    /\ IF parses /\ ExecuteFunctionCall(known, TRUE).invoked
       THEN /\ SetConn([Conn EXCEPT !.bridge =
                           [stage |-> "executing", call |-> call, failed |-> FALSE,
                            live |-> HasActiveStream(active_streams),
                            origin |-> OriginOf(active_streams, rid)]])
            /\ fired' = <<[cb |-> "function", user |-> 0, arg |-> <<>>]>>
            /\ sent' = <<>>
       ELSE /\ SetConn([Conn EXCEPT !.bridge =
                           [stage |-> "sleeping", call |-> call, failed |-> TRUE,
                            live |-> HasActiveStream(active_streams),
                            origin |-> OriginOf(active_streams, rid)]])
            /\ fired' = <<>>
            /\ sent' = <<FunctionOutput(TRUE)>>
    /\ removed' = <<>>
    /\ last_op' = Op("response.function_call_arguments.done", 0, None,
                     IF ~parses THEN <<"malformed">>
                     ELSE IF ~known THEN <<"unknown">> ELSE <<"known">>, TRUE)
    /\ UNCHANGED <<active_streams, breaker_vars, next_rid, pool_vars, dental_vars, owner>>

\* the same with the event's response not observed
RecvFunctionCallDone(call, parses, known) == FunctionCallDone(None, call, parses, known)

\* the handler returns (handler_ok) or raises: _execute_function_call makes the
\* result, _send_function_result sends it and sleeps. With the transport closed
\* _send_event raises, the "except" clause sends again, that raises out of the
\* handler, and the receive loop logs it.
FunctionReturns(handler_ok) ==
    LET r == ExecuteFunctionCall(TRUE, handler_ok)
    IN /\ bridge.stage = "executing"
       /\ IF ws_open
          THEN /\ SetConn([Conn EXCEPT !.bridge.stage = "sleeping",
                                       !.bridge.failed = r.raised])
               /\ sent' = <<FunctionOutput(TRUE)>>
          ELSE /\ SetConn([Conn EXCEPT !.bridge = Idle])
               /\ sent' = IF r.raised THEN <<FunctionOutput(FALSE)>>
                          ELSE <<FunctionOutput(FALSE), FunctionOutput(FALSE)>>
       /\ fired' = <<>>
       /\ removed' = <<>>
       /\ last_op' = Op("function_returns", 0, None,
                        <<IF handler_ok THEN "returns" ELSE "raises", r.result>>,
                        ws_open)
    /\ UNCHANGED <<active_streams, breaker_vars, next_rid, pool_vars, dental_vars, owner>>

\* _send_function_result after the sleep, then "self.pending_function_calls.pop"
ContinueAfterFunction ==
    LET active == HasActiveStream(active_streams)
        popped == [Conn EXCEPT !.bridge = Idle,
                               !.pending_function_calls = @ \ {bridge.call}]
    IN /\ bridge.stage = "sleeping"
       /\ IF ~active
          THEN SetConn(popped) /\ sent' = <<>>
          ELSE IF ws_open
          THEN SetConn(popped) /\ sent' = <<Msg("response.create", TRUE)>>
          ELSE /\ SetConn([Conn EXCEPT !.bridge = Idle])
               /\ sent' = IF bridge.failed THEN <<Msg("response.create", FALSE)>>
                          ELSE <<Msg("response.create", FALSE), FunctionOutput(FALSE)>>
       /\ fired' = <<>>
       /\ removed' = <<>>
       /\ last_op' = Op("continue_after_function", 0, None, <<>>, ~active \/ ws_open)
       /\ UNCHANGED <<active_streams, breaker_vars, next_rid, pool_vars, dental_vars, owner>>

\* the transport goes down (peer close, network loss)
TransportDrop ==
    /\ ws_open
    /\ ws_open' = FALSE
    /\ NoOutput(Op("transport_drop", 0, None, <<>>, TRUE))
    /\ UNCHANGED <<active_streams, is_connected, should_reconnect, reconnecting,
                   reconnect_task, listening, monitoring, reconnect_attempts,
                   consecutive_failures, circuit_breaker_open, has_last_reconnect,
                   next_rid, connect_failures, connecting,
                   pending_function_calls, bridge, watchdogs, pool_vars, dental_vars, owner>>

\* _listen_events, "except (ConnectionClosed, ...)": the close surfaces as an error
ListenClosed ==
    LET c1 == [Conn EXCEPT !.is_connected = FALSE, !.listening = FALSE]
    IN /\ listening
       /\ bridge = Idle
       /\ ~ws_open
       /\ IF should_reconnect
          THEN /\ SetConn(TriggerReconnection(c1))
               /\ UNCHANGED active_streams
          ELSE /\ SetConn(c1)
               /\ active_streams' = MarkStreamingError(active_streams)
       /\ NoOutput(Op("listen_closed", 0, None, <<>>, TRUE))
       /\ UNCHANGED <<breaker_vars, next_rid, pool_vars, dental_vars, owner>>

\* _listen_events: a normal close ends "async for" without an exception, and a
\* message that arrives while is_connected is False breaks the loop
ListenEnds ==
    /\ listening
    /\ bridge = Idle
    /\ ~ws_open \/ ~is_connected
    /\ listening' = FALSE
    /\ NoOutput(Op("listen_ends", 0, None, <<>>, TRUE))
    /\ UNCHANGED <<active_streams, is_connected, ws_open, should_reconnect,
                   reconnecting, reconnect_task, monitoring, reconnect_attempts,
                   consecutive_failures, circuit_breaker_open, has_last_reconnect,
                   next_rid, connect_failures, connecting,
                   pending_function_calls, bridge, watchdogs, pool_vars, dental_vars, owner>>

\* ----------------------------------------------------------------- monitor
\* _monitor_connection: "while self._should_reconnect and self.is_connected" fails
MonitorExits ==
    /\ monitoring
    /\ ~(should_reconnect /\ is_connected)
    /\ monitoring' = FALSE
    /\ NoOutput(Op("monitor_exits", 0, None, <<>>, TRUE))
    /\ UNCHANGED <<active_streams, is_connected, ws_open, should_reconnect,
                   reconnecting, reconnect_task, listening, reconnect_attempts,
                   consecutive_failures, circuit_breaker_open, has_last_reconnect,
                   next_rid, connect_failures, connecting,
                   pending_function_calls, bridge, watchdogs, pool_vars, dental_vars, owner>>

\* _monitor_connection: the socket is closed, or the ping times out (timeout),
\* or no pong came for three timeouts
MonitorDetectsDead(timeout) ==
    /\ monitoring
    /\ should_reconnect /\ is_connected
    /\ IF timeout THEN ws_open ELSE ~ws_open
    /\ SetConn(TriggerReconnection(
                  [Conn EXCEPT !.is_connected = FALSE, !.monitoring = FALSE]))
    /\ NoOutput(Op("monitor_detects_dead", 0, None, <<>>, TRUE))
    /\ UNCHANGED <<active_streams, breaker_vars, next_rid, pool_vars, dental_vars, owner>>

\* --------------------------------------------------------------- _reconnect
\* _reconnect up to "await asyncio.sleep(delay)". cooled: five minutes have passed
\* since the breaker opened; recent: the last attempt was under five seconds ago.
ReconnectBegin(cooled, recent) ==
    LET closing == circuit_breaker_open /\ cooled
        cf0 == IF closing THEN 0 ELSE consecutive_failures
        cf1 == IF has_last_reconnect /\ recent THEN cf0 + 1 ELSE cf0
        return == /\ reconnect_task' = "none"
                  /\ reconnecting' = FALSE
    IN /\ reconnect_task = "start"
       /\ cooled => circuit_breaker_open
       /\ recent => has_last_reconnect
       /\ IF ~should_reconnect
          THEN return /\ UNCHANGED breaker_vars
          ELSE IF circuit_breaker_open /\ ~cooled
          THEN return /\ UNCHANGED breaker_vars
          ELSE IF reconnect_attempts >= MaxReconnectAttempts
          THEN /\ return
               /\ circuit_breaker_open' = TRUE
               /\ should_reconnect' = FALSE
               /\ consecutive_failures' = cf0
               /\ UNCHANGED has_last_reconnect
          ELSE IF cf1 > MaxConsecutiveFailures
          THEN /\ return
               /\ circuit_breaker_open' = TRUE
               /\ consecutive_failures' = cf1
               /\ UNCHANGED <<should_reconnect, has_last_reconnect>>
          ELSE /\ reconnect_task' = "sleeping"
               /\ circuit_breaker_open' = FALSE
               /\ consecutive_failures' = cf1
               /\ UNCHANGED <<reconnecting, should_reconnect, has_last_reconnect>>
       /\ NoOutput(Op("reconnect_begin", 0, None,
                      IF cooled THEN <<"cooled">> ELSE <<>>, TRUE))
       /\ UNCHANGED <<active_streams, is_connected, ws_open, listening, monitoring,
                      reconnect_attempts, next_rid, connect_failures, connecting,
                      pending_function_calls, bridge, watchdogs, pool_vars, dental_vars, owner>>

\* _reconnect after the sleep: one connect() attempt, then "finally"
ReconnectWake(ok) ==
    LET c1 == ConnectResult(Conn, ok, TRUE)
        c2 == IF ok THEN c1
              ELSE IF should_reconnect
              THEN [c1 EXCEPT !.reconnect_attempts = @ + 1]   \* then _trigger_reconnection,
              ELSE c1                                         \* a no-op: _reconnecting is set
        done == [c2 EXCEPT !.reconnect_task = "none", !.reconnecting = FALSE]
    IN /\ reconnect_task = "sleeping"
       /\ ok \in ConnectOutcomes(Conn)
       /\ IF ~should_reconnect
          THEN /\ SetConn([Conn EXCEPT !.reconnect_task = "none", !.reconnecting = FALSE])
               /\ UNCHANGED breaker_vars
               /\ sent' = <<>>
          ELSE /\ SetConn(done)
               /\ has_last_reconnect' = TRUE
               /\ consecutive_failures' = IF ok THEN 0 ELSE consecutive_failures + 1
               /\ circuit_breaker_open' = IF ok THEN FALSE ELSE circuit_breaker_open
               /\ UNCHANGED should_reconnect
               /\ sent' = IF ok /\ ~(is_connected /\ ws_open)
                          THEN <<Msg("session.update", TRUE)>> ELSE <<>>
       /\ fired' = <<>>
       /\ removed' = <<>>
       /\ last_op' = Op("reconnect_wake", 0, None, <<>>, ok)
       /\ UNCHANGED <<active_streams, next_rid, pool_vars, dental_vars, owner>>

\* ------------------------------------------------------ RealtimeConnectionPool
\* The client of a pooled connection is seen through is_connected and user_id.
\* task is the calling task where the calls are followed through their awaits
PoolOp(name, u, id, created, ok) ==
    [op |-> name, user |-> u, conn_id |-> id, created |-> created, ok |-> ok,
     task |-> 0]

\* ConnectionStatus(connection_id, client) of a client made for user u, with the
\* user already added to active_users
NewConnection(oid, id, u) ==
    [oid |-> oid, connection_id |-> id, client_user |-> u, is_connected |-> TRUE,
     is_healthy |-> TRUE, active_users |-> {u}, total_requests |-> 0,
     total_errors |-> 0, idle |-> FALSE,
     served |-> 0, streak |-> 0]   \* observed, see Observe

\* position in self.connections of the object oid, 0 when it is not in the list
ConnIndex(conns, oid) ==
    LET hit == {i \in 1..Len(conns) : conns[i].oid = oid}
    IN IF hit = {} THEN 0 ELSE Min(hit)

\* RealtimeConnectionPool(pool_size=1): "self.pool_size = min(pool_size, 10)"
pool_size == 1

\* ConnectionStatus.active_count
ActiveCount(c) == Cardinality(c.active_users)

\* an is_available that does not look at the transport
IsAvailableHealthyOnly(c) == c.is_healthy

\* ConnectionStatus.is_available
IsAvailable(c) == c.is_healthy /\ c.is_connected

\* ConnectionStatus.update_stats(success=False)
UpdateStatsFailure(c) ==
    [c EXCEPT !.total_requests = @ + 1, !.total_errors = @ + 1, !.idle = FALSE]

\* "error_rate = total_errors / max(1, total_requests)" compared with num/den
ErrorRateAbove(c, num, den) ==
    c.total_errors * den > num * (IF c.total_requests > 1 THEN c.total_requests ELSE 1)

\* _select_connection: "available = [c for c in self.connections if ...]"
SelectCandidates(conns, max) ==
    {i \in 1..Len(conns) : IsAvailable(conns[i]) /\ ActiveCount(conns[i]) < max}

\* _select_connection under LEAST_CONNECTIONS: min() keeps the first of the fewest
SelectConnection(conns, max) ==
    LET av == SelectCandidates(conns, max)
    IN IF av = {} THEN 0
       ELSE Min({i \in av : \A j \in av : ActiveCount(conns[i]) <= ActiveCount(conns[j])})

\* a get_connection_for_user that never reuses
ReusableNever(conns, uc, u) == FALSE

\* get_connection_for_user: the user's connection is reused
Reusable(conns, uc, u) ==
    /\ uc[u] # 0
    /\ LET c == conns[ConnIndex(conns, uc[u])]
       IN IsAvailable(c) /\ c.client_user = u

\* "del self.user_connections[user_id]; conn.active_users.discard(user_id)"
DropUser(conns, uc, u) ==
    [i \in 1..Len(conns) |->
        IF conns[i].oid = uc[u]
        THEN [conns[i] EXCEPT !.active_users = @ \ {u}]
        ELSE conns[i]]

\* get_connection_for_user(user_id); ok: the new client's connect() succeeds.
\* The result is <<connections, user_connections, next_oid, returned id, created, ok>>
GetConnection(conns, uc, oid, u, ok) ==
    IF Reusable(conns, uc, u)
    THEN <<conns, uc, oid, conns[ConnIndex(conns, uc[u])].connection_id, FALSE, TRUE>>
    ELSE LET c1 == IF uc[u] # 0 THEN DropUser(conns, uc, u) ELSE conns
             u1 == [uc EXCEPT ![u] = 0]
         IN IF ok
            THEN <<Append(c1, NewConnection(oid, Len(c1), u)),
                   [u1 EXCEPT ![u] = oid], oid + 1, Len(c1), TRUE, TRUE>>
            ELSE <<c1, u1, oid, -1, FALSE, FALSE>>

\* a call creates a connection only while the run's budget of objects lasts;
\* ok is an input of the calls that create one
MayCreateWithin(u, ok, budget) ==
    IF Reusable(connections, user_connections, u) THEN ok ELSE next_oid <= budget

MayCreate(u, ok) == MayCreateWithin(u, ok, MaxConns)

GetConnectionWithin(u, ok, budget) ==
    LET r == GetConnection(connections, user_connections, next_oid, u, ok)
    IN /\ MayCreateWithin(u, ok, budget)
       /\ connections' = r[1]
       /\ user_connections' = r[2]
       /\ next_oid' = r[3]
       /\ pool_op' = PoolOp("get_connection_for_user", u, r[4], r[5], r[6])
       /\ UNCHANGED <<max_users_per_connection, client_vars, out_vars, dental_vars, lock_vars>>

GetConnectionForUser(u, ok) == GetConnectionWithin(u, ok, MaxConns)

\* What is observed of a connection's sends, up to cap of each: served counts the
\* client.send_user_message calls that returned, streak the calls that raised
\* since the last one that returned. The program keeps neither.
Observe(c, sent_ok, cap) ==
    LET inc(n) == IF n < cap THEN n + 1 ELSE n
    IN IF sent_ok THEN [c EXCEPT !.served = inc(@), !.streak = 0]
       ELSE [c EXCEPT !.streak = inc(@)]

\* pool.send_user_message: "if conn.total_errors > 5 or error_rate > 0.3"
Unhealthy(c) == c.total_errors > 5 \/ ErrorRateAbove(c, 3, 10)

\* pool.send_user_message(user_id, text). ok: connect() of a new client; sent_ok:
\* client.send_user_message returns; up: the client is still connected after it
\* raised; cap: how far the sends are observed
SendThrough(u, ok, sent_ok, up, cap) ==
    LET r == GetConnection(connections, user_connections, next_oid, u, ok)
        i == ConnIndex(r[1], r[2][u])
        c1 == [UpdateStatsFailure(Observe(r[1][i], FALSE, cap)) EXCEPT !.is_connected = up]
        bad == Unhealthy(c1)
        c2 == IF bad THEN [c1 EXCEPT !.is_healthy = FALSE, !.active_users = @ \ {u}]
              ELSE c1
    IN /\ MayCreate(u, ok)
       /\ ~r[6] => (sent_ok /\ up)
       /\ sent_ok => up
       /\ next_oid' = r[3]
       /\ IF ~r[6]
          THEN /\ connections' = r[1]
               /\ user_connections' = r[2]
          ELSE IF sent_ok
          THEN /\ connections' = [r[1] EXCEPT ![i] = Observe(@, TRUE, cap)]
               /\ user_connections' = r[2]
          ELSE /\ connections' = [r[1] EXCEPT ![i] = c2]
               /\ user_connections' = IF bad THEN [r[2] EXCEPT ![u] = 0] ELSE r[2]
       /\ pool_op' = PoolOp("send_user_message", u, r[4], r[5], r[6] /\ sent_ok)
       /\ UNCHANGED <<max_users_per_connection, client_vars, out_vars, dental_vars, lock_vars>>

PoolSendUserMessage(u, ok, sent_ok, up) == SendThrough(u, ok, sent_ok, up, 0)

\* release_user_connection(user_id): only last_used is refreshed
ReleaseUserConnection(u) ==
    /\ user_connections[u] # 0
    /\ connections' = [i \in 1..Len(connections) |->
                          IF connections[i].oid = user_connections[u]
                          THEN [connections[i] EXCEPT !.idle = FALSE]
                          ELSE connections[i]]
    /\ pool_op' = PoolOp("release_user_connection", 0, -1, FALSE, TRUE)
    /\ UNCHANGED <<user_connections, next_oid, max_users_per_connection,
                   client_vars, out_vars, dental_vars, lock_vars>>

\* cancel_user_stream(user_id): hands over to the client, the pool keeps its state
CancelUserStream(u) ==
    /\ pool_op' = PoolOp("cancel_user_stream", 0, -1, FALSE, TRUE)
    /\ UNCHANGED <<connections, user_connections, next_oid, max_users_per_connection,
                   client_vars, out_vars, dental_vars, lock_vars>>

\* cancel_user_streams(user_id): cancels at the client and unassigns the user
CancelUserStreams(u) ==
    /\ connections' = IF user_connections[u] # 0
                      THEN DropUser(connections, user_connections, u)
                      ELSE connections
    /\ user_connections' = [user_connections EXCEPT ![u] = 0]
    /\ pool_op' = PoolOp("cancel_user_streams", u, -1, FALSE, TRUE)
    /\ UNCHANGED <<next_oid, max_users_per_connection, client_vars, out_vars, dental_vars, lock_vars>>

\* _migrate_users_from_connection: "healthy_conn = self._select_connection()" is
\* not awaited, "healthy_conn.connection_id" raises on the coroutine for every
\* user, the except clause logs it, and the connection keeps its users
MigrateUsersFrom(conns, i) == conns

\* health_check, first loop, for one connection. reconnects: the connections whose
\* client.connect() succeeds
CheckConnection(conns, i, reconnects) ==
    LET c == conns[i]
    IN IF c.is_connected THEN conns
       ELSE IF ActiveCount(c) = 0 THEN [conns EXCEPT ![i].is_healthy = FALSE]
       ELSE IF c.oid \in reconnects
            THEN [conns EXCEPT ![i].is_connected = TRUE, ![i].is_healthy = TRUE]
       ELSE LET c1 == [conns EXCEPT ![i].is_healthy = FALSE]
            IN IF c.total_errors > 10 \/ ErrorRateAbove(c, 5, 10)
               THEN MigrateUsersFrom(c1, i)
               ELSE c1

\* a first loop that ends at the first connect() that raises
RECURSIVE CheckConnectionsUntilFailure(_, _, _)
CheckConnectionsUntilFailure(conns, i, reconnects) ==
    IF i > Len(conns) THEN conns
    ELSE IF ~conns[i].is_connected /\ ActiveCount(conns[i]) > 0
            /\ conns[i].oid \notin reconnects
    THEN CheckConnection(conns, i, reconnects)
    ELSE CheckConnectionsUntilFailure(CheckConnection(conns, i, reconnects), i + 1,
                                      reconnects)

RECURSIVE CheckConnections(_, _, _)
CheckConnections(conns, i, reconnects) ==
    IF i > Len(conns) THEN conns
    ELSE CheckConnections(CheckConnection(conns, i, reconnects), i + 1, reconnects)

\* health_check, second part: the users whose connection was last used over an
\* hour ago
InactiveUsers(conns, uc) ==
    {u \in Users : uc[u] # 0 /\ conns[ConnIndex(conns, uc[u])].idle}

RECURSIVE KeepConnections(_, _, _)
KeepConnections(conns, uc, i) ==
    IF i > Len(conns) THEN <<>>
    ELSE LET gone == {u \in InactiveUsers(conns, uc) : uc[u] = conns[i].oid}
             c1 == [conns[i] EXCEPT !.active_users = @ \ gone]
         IN (IF gone # {} /\ c1.active_users = {} THEN <<>> ELSE <<c1>>)
            \o KeepConnections(conns, uc, i + 1)

HealthCheck(reconnects) ==
    LET c1 == CheckConnections(connections, 1, reconnects)
    IN /\ reconnects \subseteq
              {connections[i].oid : i \in {j \in 1..Len(connections) :
                    ~connections[j].is_connected /\ ActiveCount(connections[j]) > 0}}
       /\ connections' = KeepConnections(c1, user_connections, 1)
       /\ user_connections' =
              [u \in Users |-> IF u \in InactiveUsers(c1, user_connections)
                               THEN 0 ELSE user_connections[u]]
       /\ pool_op' = PoolOp("health_check", 0, -1, FALSE, TRUE)
       /\ UNCHANGED <<next_oid, max_users_per_connection, client_vars, out_vars, dental_vars, lock_vars>>

\* an hour passes without the connection being used
ConnGoesIdle(i) ==
    /\ i \in 1..Len(connections)
    /\ ~connections[i].idle
    /\ connections' = [connections EXCEPT ![i].idle = TRUE]
    /\ pool_op' = PoolOp("environment", 0, -1, FALSE, TRUE)
    /\ UNCHANGED <<user_connections, next_oid, max_users_per_connection,
                   client_vars, out_vars, dental_vars, lock_vars>>

\* the client of a pooled connection loses its transport and notices
ClientDrop(i) ==
    /\ i \in 1..Len(connections)
    /\ connections[i].is_connected
    /\ connections' = [connections EXCEPT ![i].is_connected = FALSE]
    /\ pool_op' = PoolOp("environment", 0, -1, FALSE, TRUE)
    /\ UNCHANGED <<user_connections, next_oid, max_users_per_connection,
                   client_vars, out_vars, dental_vars, lock_vars>>

\* the client's own _reconnect succeeds
ClientReconnect(i) ==
    /\ i \in 1..Len(connections)
    /\ ~connections[i].is_connected
    /\ connections' = [connections EXCEPT ![i].is_connected = TRUE]
    /\ pool_op' = PoolOp("environment", 0, -1, FALSE, TRUE)
    /\ UNCHANGED <<user_connections, next_oid, max_users_per_connection,
                   client_vars, out_vars, dental_vars, lock_vars>>

\* ------------------------------------------- the pool's calls, await by await
\* A call of get_connection_for_user or pool.send_user_message by task t stands
\* at "async with self._lock" (pc "waiting"), at "await client.connect()" with
\* the lock held (pc "connecting"), or at "await client.send_user_message(...)"
\* (pc "sending"); a call of cancel_user_streams stands at
\* "await conn.client.cancel_stream(user_id)" (pc "cancelling") with conn, the
\* ConnectionStatus it read from the routing table.
TaskOp(name, t, u, id, created, ok) ==
    [PoolOp(name, u, id, created, ok) EXCEPT !.task = t]

\* task t calls get_connection_for_user(u) (op "get") or
\* pool.send_user_message(u, ...) (op "send") and reaches the lock
PoolCall(t, u, op) ==
    /\ tasks[t] = NoCall
    /\ tasks' = [tasks EXCEPT ![t] = [pc |-> "waiting", user |-> u, op |-> op,
                                      conn |-> 0]]
    /\ pool_op' = TaskOp("call", t, u, -1, FALSE, TRUE)
    /\ UNCHANGED <<connections, user_connections, next_oid, max_users_per_connection,
                   lock, client_vars, out_vars, dental_vars>>

\* get_connection_for_user from "async with self._lock" to its first await: the
\* user's connection is returned and the lock released, or the stale entry is
\* dropped and the task awaits the new client's connect() with the lock held
LockAcquire(t) ==
    LET u == tasks[t].user
        reuse == Reusable(connections, user_connections, u)
    IN /\ tasks[t].pc = "waiting"
       /\ lock = 0
       /\ ~reuse => next_oid <= MaxConns
       /\ IF reuse
          THEN /\ tasks' = [tasks EXCEPT ![t] =
                               IF tasks[t].op = "send"
                               THEN [@ EXCEPT !.pc = "sending"] ELSE NoCall]
               /\ pool_op' = TaskOp("get_connection_for_user", t, u,
                                    connections[ConnIndex(connections,
                                        user_connections[u])].connection_id,
                                    FALSE, TRUE)
               /\ UNCHANGED <<connections, user_connections, lock>>
          ELSE /\ connections' = IF user_connections[u] # 0
                                 THEN DropUser(connections, user_connections, u)
                                 ELSE connections
               /\ user_connections' = [user_connections EXCEPT ![u] = 0]
               /\ lock' = t
               /\ tasks' = [tasks EXCEPT ![t].pc = "connecting"]
               /\ pool_op' = TaskOp("lock_acquired", t, u, -1, FALSE, TRUE)
       /\ UNCHANGED <<next_oid, max_users_per_connection, client_vars, out_vars,
                      dental_vars>>

\* "await client.connect()" of the new client returns (ok) or raises: the
\* connection is appended and routed, and the lock is released either way
ConnectReturns(t, ok) ==
    LET u == tasks[t].user
        r == GetConnection(connections, user_connections, next_oid, u, ok)
    IN /\ tasks[t].pc = "connecting"
       /\ connections' = r[1]
       /\ user_connections' = r[2]
       /\ next_oid' = r[3]
       /\ lock' = 0
       /\ tasks' = [tasks EXCEPT ![t] =
                       IF ok /\ tasks[t].op = "send"
                       THEN [@ EXCEPT !.pc = "sending"] ELSE NoCall]
       /\ pool_op' = TaskOp("get_connection_for_user", t, u, r[4], r[5], r[6])
       /\ UNCHANGED <<max_users_per_connection, client_vars, out_vars, dental_vars>>

\* pool.send_user_message after get_connection_for_user: the client's send
\* returns (sent_ok), or raises and the except clause runs on
\* "self.user_connections.get(user_id)"; up: the client is still connected
SendReturns(t, sent_ok, up) ==
    LET u == tasks[t].user
        i == ConnIndex(connections, user_connections[u])
        c1 == [UpdateStatsFailure(connections[i]) EXCEPT !.is_connected = up]
        bad == Unhealthy(c1)
        c2 == IF bad THEN [c1 EXCEPT !.is_healthy = FALSE, !.active_users = @ \ {u}]
              ELSE c1
    IN /\ tasks[t].pc = "sending"
       /\ sent_ok => up
       /\ tasks' = [tasks EXCEPT ![t] = NoCall]
       /\ IF sent_ok \/ user_connections[u] = 0 \/ i = 0
          THEN UNCHANGED <<connections, user_connections>>
          ELSE /\ connections' = [connections EXCEPT ![i] = c2]
               /\ user_connections' =
                      IF bad THEN [user_connections EXCEPT ![u] = 0]
                      ELSE user_connections
       /\ pool_op' = TaskOp("send_user_message", t, u,
                            IF i = 0 THEN -1 ELSE connections[i].connection_id,
                            FALSE, sent_ok)
       /\ UNCHANGED <<next_oid, max_users_per_connection, lock, client_vars,
                      out_vars, dental_vars>>

\* cancel_user_streams(u) by task t while the client's cancel_stream awaits its
\* send of "response.cancel" and its sleep; a cancel_stream that does not await
\* is CancelUserStreams
CancelSuspends(t, u) ==
    /\ tasks[t] = NoCall
    /\ user_connections[u] # 0
    /\ tasks' = [tasks EXCEPT ![t] = [pc |-> "cancelling", user |-> u, op |-> "cancel",
                                      conn |-> user_connections[u]]]
    /\ pool_op' = TaskOp("call", t, u, -1, FALSE, TRUE)
    /\ UNCHANGED <<connections, user_connections, next_oid, max_users_per_connection,
                   lock, client_vars, out_vars, dental_vars>>

\* cancel_stream returns: "conn.active_users.discard(user_id)" on the connection
\* read before the await, then "del self.user_connections[user_id]", whose
\* KeyError the except clause logs
CancelResumes(t) ==
    LET u == tasks[t].user
    IN /\ tasks[t].pc = "cancelling"
       /\ connections' = [i \in 1..Len(connections) |->
                             IF connections[i].oid = tasks[t].conn
                             THEN [connections[i] EXCEPT !.active_users = @ \ {u}]
                             ELSE connections[i]]
       /\ user_connections' = [user_connections EXCEPT ![u] = 0]
       /\ tasks' = [tasks EXCEPT ![t] = NoCall]
       /\ pool_op' = TaskOp("cancel_user_streams", t, u, -1, FALSE,
                            user_connections[u] # 0)
       /\ UNCHANGED <<next_oid, max_users_per_connection, lock, client_vars,
                      out_vars, dental_vars>>

\* -------------------------------------------------------- DentalRealtimeClient
\* what a DentalRealtimeClient operation leaves alone of the other client and
\* of the pool
dental_frame == <<active_streams, should_reconnect, reconnecting, monitoring,
                  reconnect_attempts, consecutive_failures, circuit_breaker_open,
                  has_last_reconnect, connect_failures, connecting,
                  pending_function_calls, bridge, watchdogs, removed, pool_vars,
                  owner>>

DentalConnected == is_connected /\ ws_open

\* stream_data of a new turn; "finalized" is written by no method of the class
DentalStream(u, rid) ==
    [user_id |-> u, response_id |-> rid, accumulated_text |-> <<>>,
     completed |-> FALSE, finalized |-> FALSE]

\* "del self.active_streams[user_id]"
DentalDrop(streams, u) ==
    LET i == IndexOfUser(streams, u)
    IN IF i = 0 THEN streams ELSE RemoveAt(streams, i)

\* "for rid in response_ids_to_remove: del self.response_to_user[rid]"
Unmap(map, u) == [r \in DOMAIN map |-> IF map[r] = u THEN 0 ELSE map[r]]

\* the response ids mapped to user u
MappedTo(map, u) == {r \in DOMAIN map : map[r] = u}

\* cancel_stream: "self.completed_responses.discard(rid)" for every id it unmaps
CancelCompleted(done, map, u) == done \ MappedTo(map, u)

\* connect(): handshake, initialize_session, a new listen_events task
DentalConnect(ok) ==
    /\ is_connected' = ok
    /\ ws_open' = (ok \/ ws_open)
    /\ listening' = (ok \/ listening)
    /\ sent' = IF ok THEN <<Msg("session.update", TRUE)>> ELSE <<>>
    /\ fired' = <<>>
    /\ last_op' = Op("dental_connect", 0, None, <<>>, ok)
    /\ UNCHANGED <<reconnect_task, next_rid, dental_vars, dental_frame>>

\* send_user_message(user_id, text, message_id). ok: outcome of the connect() made
\* when the client is not connected; fail_at: 0 when both sends go out, 1 (2) when
\* the transport drops at the first (second) send. Any exception deletes the
\* user's stream and mappings.
DentalSendUserMessage(u, ok, fail_at) ==
    LET rid == InternalId(u, dental_clock)
        i == IndexOfUser(dental_streams, u)
        old == IF i = 0 THEN None ELSE dental_streams[i].response_id
        hello == IF DentalConnected THEN <<>> ELSE <<Msg("session.update", TRUE)>>
        item(good) == Msg("conversation.item.create", good)
        create(good) == Msg("response.create", good)
        turn == IF i = 0 THEN Append(dental_streams, DentalStream(u, rid))
                ELSE [dental_streams EXCEPT ![i] = DentalStream(u, rid)]
        popped == IF old = None THEN response_to_user
                  ELSE [response_to_user EXCEPT ![old] = 0]
        linked == DentalConnected \/ ok
    IN /\ DentalConnected => ok
       /\ ~linked => fail_at = 0
       /\ IF linked /\ fail_at = 0
          THEN /\ dental_streams' = turn
               /\ response_to_user' = [popped EXCEPT ![rid] = u]
               /\ is_connected' = TRUE /\ ws_open' = TRUE /\ listening' = TRUE
               /\ sent' = hello \o <<item(TRUE), create(TRUE)>>
          ELSE /\ dental_streams' = DentalDrop(dental_streams, u)
               /\ response_to_user' = Unmap(response_to_user, u)
               /\ is_connected' = linked
               /\ ws_open' = (~linked /\ ws_open)
               /\ listening' = (linked \/ listening)
               /\ sent' = IF ~linked THEN <<>>
                          ELSE hello \o (IF fail_at = 1 THEN <<item(FALSE)>>
                                         ELSE <<item(TRUE), create(FALSE)>>)
       /\ fired' = <<>>
       /\ last_op' = Op("dental_send_user_message", u, rid, <<>>, linked /\ fail_at = 0)
       /\ UNCHANGED <<reconnect_task, next_rid, completed_responses, dental_clock,
                      dental_frame>>

\* cancel_stream(user_id). The response.cancel goes through send_event, which
\* connects first when the client is not connected (ok: that handshake succeeds);
\* a send_event that raises is logged and the clean-up goes on.
DentalCancelStream(u, ok) ==
    LET i == IndexOfUser(dental_streams, u)
        asks == /\ i # 0
                /\ dental_streams[i].response_id \notin completed_responses
        linked == DentalConnected \/ ok
    IN /\ (DentalConnected \/ ~asks) => ok
       /\ IF asks
          THEN /\ is_connected' = linked
               /\ ws_open' = (linked \/ ws_open)
               /\ listening' = (linked \/ listening)
               /\ sent' = IF ~linked THEN <<>>
                          ELSE (IF DentalConnected THEN <<>>
                                ELSE <<Msg("session.update", TRUE)>>)
                               \o <<Msg("response.cancel", TRUE)>>
          ELSE /\ sent' = <<>>
               /\ UNCHANGED <<is_connected, ws_open, listening>>
       /\ IF i = 0
          THEN UNCHANGED <<dental_streams, response_to_user, completed_responses>>
          ELSE /\ dental_streams' = DentalDrop(dental_streams, u)
               /\ response_to_user' = Unmap(response_to_user, u)
               /\ completed_responses' =
                      CancelCompleted(completed_responses, response_to_user, u)
       /\ fired' = <<>>
       /\ last_op' = Op("dental_cancel_stream", u, None, <<>>, TRUE)
       /\ UNCHANGED <<reconnect_task, next_rid, dental_clock, dental_frame>>

\* cleanup_stale_streams(): old is the set of positions whose stream is older
\* than 24 hours
RECURSIVE KeepYoung(_, _, _)
KeepYoung(streams, old, i) ==
    IF i > Len(streams) THEN <<>>
    ELSE (IF i \in old THEN <<>> ELSE <<streams[i]>>) \o KeepYoung(streams, old, i + 1)

DentalCleanupStaleStreams(old) ==
    LET ids == {dental_streams[i].response_id : i \in old}
    IN /\ old # {}
       /\ dental_streams' = KeepYoung(dental_streams, old, 1)
       /\ response_to_user' = [r \in DOMAIN response_to_user |->
                                  IF r \in ids THEN 0 ELSE response_to_user[r]]
       /\ completed_responses' = completed_responses \ ids
       /\ sent' = <<>>
       /\ fired' = <<>>
       /\ last_op' = Op("dental_cleanup_stale_streams", 0, None, <<>>, TRUE)
       /\ UNCHANGED <<is_connected, ws_open, listening, reconnect_task, next_rid,
                      dental_clock, dental_frame>>

\* a second passes
DentalTick ==
    /\ dental_clock < MaxClock
    /\ dental_clock' = dental_clock + 1
    /\ sent' = <<>>
    /\ fired' = <<>>
    /\ last_op' = Op("dental_tick", 0, None, <<>>, TRUE)
    /\ UNCHANGED <<is_connected, ws_open, listening, reconnect_task, next_rid,
                   dental_streams, response_to_user, completed_responses, dental_frame>>

\* listen_events reads messages while its transport is open
DentalReceiving == listening /\ ws_open

\* what handle_event leaves alone
dental_recv_frame == <<is_connected, ws_open, listening, reconnect_task,
                       dental_clock, dental_frame>>

\* position of the first stream that is not completed, 0 when there is none
FirstOpen(streams) ==
    LET open == {i \in 1..Len(streams) : ~streams[i].completed}
    IN IF open = {} THEN 0 ELSE Min(open)

\* handle_event, "response.created": the upstream opens a response under a fresh
\* id, which is mapped to the user of the first stream that is not completed
DentalResponseCreated ==
    LET i == FirstOpen(dental_streams)
    IN /\ DentalReceiving
       /\ next_rid <= MaxRids
       /\ next_rid' = next_rid + 1
       /\ response_to_user' = IF i = 0 THEN response_to_user
                              ELSE [response_to_user EXCEPT
                                       ![next_rid] = dental_streams[i].user_id]
       /\ sent' = <<>>
       /\ fired' = <<>>
       /\ last_op' = Op("dental_response.created", 0, next_rid, <<>>, TRUE)
       /\ UNCHANGED <<dental_streams, completed_responses, dental_recv_frame>>

\* the user whose stream a text event with response id rid (None: the event has
\* none) is applied to, 0 when there is none
DentalUserOf(rid) ==
    LET u == IF rid # None
             THEN response_to_user[rid]
             ELSE IF dental_streams # <<>> THEN dental_streams[1].user_id ELSE 0
    IN IF u # 0 /\ IndexOfUser(dental_streams, u) # 0 THEN u ELSE 0

DentalCallback(cb, u, text) == [cb |-> cb, user |-> u, arg |-> text]

\* handle_event, "response.text.delta"; due: the throttle lets this update through
DentalTextDelta(rid, d, due) ==
    LET u == DentalUserOf(rid)
        i == IndexOfUser(dental_streams, u)
        text == dental_streams[i].accumulated_text \o d
    IN /\ DentalReceiving
       /\ rid = None \/ rid < next_rid
       /\ u = 0 => ~due
       /\ IF u = 0
          THEN /\ UNCHANGED dental_streams
               /\ fired' = <<>>
          ELSE /\ dental_streams' = [dental_streams EXCEPT ![i].accumulated_text = text]
               /\ WithinBounds(dental_streams')
               /\ fired' = IF due THEN <<DentalCallback("update", u, text)>> ELSE <<>>
       /\ sent' = <<>>
       /\ last_op' = Op("dental_response.text.delta", u, rid, d, TRUE)
       /\ UNCHANGED <<next_rid, response_to_user, completed_responses,
                      dental_recv_frame>>

\* handle_event, "response.text.done"
DentalTextDone(rid, t) ==
    LET u == IF rid # None
             THEN (IF response_to_user[rid] # 0
                      /\ IndexOfUser(dental_streams, response_to_user[rid]) # 0
                   THEN response_to_user[rid] ELSE 0)
             ELSE IF dental_streams # <<>> THEN dental_streams[1].user_id ELSE 0
        i == IndexOfUser(dental_streams, u)
    IN /\ DentalReceiving
       /\ rid = None \/ rid < next_rid
       /\ completed_responses' =
              IF rid # None THEN completed_responses \cup {rid}
              ELSE IF u # 0 THEN completed_responses \cup {dental_streams[i].response_id}
              ELSE completed_responses
       /\ IF u = 0
          THEN /\ UNCHANGED dental_streams
               /\ fired' = <<>>
          ELSE /\ dental_streams' = [dental_streams EXCEPT ![i].accumulated_text = t,
                                                           ![i].completed = TRUE]
               /\ WithinBounds(dental_streams')
               /\ fired' = IF rid # None
                           THEN <<DentalCallback("update", u, t),
                                  DentalCallback("finalize", u, t)>>
                           ELSE <<DentalCallback("finalize", u, t)>>
       /\ sent' = <<>>
       /\ last_op' = Op("dental_response.text.done", u, rid, t, TRUE)
       /\ UNCHANGED <<next_rid, response_to_user, dental_recv_frame>>

\* handle_event, "response.done" with status "failed": every stream's response id
\* is marked completed; quota: the error is insufficient_quota
DentalResponseFailed(rid, quota) ==
    /\ DentalReceiving
    /\ rid < next_rid
    /\ completed_responses' = completed_responses \cup
           {dental_streams[i].response_id : i \in 1..Len(dental_streams)}
    /\ fired' = IF quota
                THEN [i \in 1..Len(dental_streams) |->
                         DentalCallback("quota", dental_streams[i].user_id, <<>>)]
                ELSE <<>>
    /\ sent' = <<>>
    /\ last_op' = Op("dental_response.done", 0, rid, <<"failed">>, TRUE)
    /\ UNCHANGED <<next_rid, dental_streams, response_to_user, dental_recv_frame>>

\* handle_event, "response.done" otherwise, t the text of its output: with text
\* and streams, every stream not finalized is given the text and a finalize
\* call, its response id and rid are completed and unmapped. (The trim of
\* completed_responses above 1000 entries is beyond the ids of a run.)
DentalResponseDone(rid, t) ==
    LET n == Len(dental_streams)
        acts == n > 0 /\ t # <<>>
        ids == {dental_streams[i].response_id : i \in 1..n} \cup {rid}
    IN /\ DentalReceiving
       /\ rid < next_rid
       /\ IF acts
          THEN /\ completed_responses' = completed_responses \cup ids
               /\ dental_streams' =
                      [i \in 1..n |->
                          IF dental_streams[i].finalized THEN dental_streams[i]
                          ELSE [dental_streams[i] EXCEPT !.accumulated_text = t,
                                                         !.completed = TRUE]]
               /\ WithinBounds(dental_streams')
               /\ fired' = LET due == SelectSeq(dental_streams,
                                                 LAMBDA st : ~st.finalized)
                           IN [k \in 1..Len(due) |->
                                  DentalCallback("finalize", due[k].user_id, t)]
               /\ response_to_user' = [r \in DOMAIN response_to_user |->
                                          IF r \in ids THEN 0 ELSE response_to_user[r]]
          ELSE /\ fired' = <<>>
               /\ UNCHANGED <<dental_streams, response_to_user, completed_responses>>
       /\ sent' = <<>>
       /\ last_op' = Op("dental_response.done", 0, rid, t, TRUE)
       /\ UNCHANGED <<next_rid, dental_recv_frame>>

\* handle_function_call and send_function_result: the result and a
\* response.create go out; open: the transport takes them
DentalFunctionCall(open) ==
    /\ DentalReceiving
    /\ DentalConnected
    /\ ws_open' = open
    /\ sent' = IF open THEN <<Msg("function_call_output", TRUE),
                              Msg("response.create", TRUE)>>
               ELSE <<Msg("function_call_output", FALSE)>>
    /\ fired' = <<>>
    /\ last_op' = Op("dental_function_call", 0, None, <<>>, open)
    /\ UNCHANGED <<is_connected, listening, reconnect_task, next_rid, dental_vars,
                   dental_frame>>

\* listen_events, "except ConnectionClosed": is_connected = False, then
\* "await asyncio.sleep(5)"
DentalListenClosed ==
    /\ listening /\ ~ws_open
    /\ is_connected' = FALSE
    /\ listening' = FALSE
    /\ reconnect_task' = "sleeping"
    /\ sent' = <<>>
    /\ fired' = <<>>
    /\ last_op' = Op("dental_listen_closed", 0, None, <<>>, TRUE)
    /\ UNCHANGED <<ws_open, next_rid, dental_vars, dental_frame>>

\* listen_events after the sleep: one connect(), its failure is logged
DentalListenReconnects(ok) ==
    /\ reconnect_task = "sleeping"
    /\ reconnect_task' = "none"
    /\ is_connected' = ok
    /\ ws_open' = (ok \/ ws_open)
    /\ listening' = (ok \/ listening)
    /\ sent' = IF ok THEN <<Msg("session.update", TRUE)>> ELSE <<>>
    /\ fired' = <<>>
    /\ last_op' = Op("dental_listen_reconnects", 0, None, <<>>, ok)
    /\ UNCHANGED <<next_rid, dental_vars, dental_frame>>

\* the transport of the DentalRealtimeClient drops
DentalTransportDrop ==
    /\ ws_open
    /\ ws_open' = FALSE
    /\ sent' = <<>>
    /\ fired' = <<>>
    /\ last_op' = Op("dental_transport_drop", 0, None, <<>>, TRUE)
    /\ UNCHANGED <<is_connected, listening, reconnect_task, next_rid, dental_vars,
                   dental_frame>>

\* ----------------------------------------------------------- specification
\* Spec: one client carrying one user's conversation through the whole life of its
\* transport. Every handshake of connect() succeeds and no two reconnects fall
\* within five seconds of each other (ReconnectSpec has the failures).
Next ==
    \/ Connect(TRUE)
    \/ \E e \in BOOLEAN : Disconnect(e)
    \/ \E u \in Solo, f \in 0..2 : SendUserMessage(u, TRUE, f)
    \/ \E u \in Solo : CancelStream(u)
    \/ \E u \in Solo : SetStreamCallbacks(u)
    \/ \E old \in SUBSET (1..Len(active_streams)) : CleanupFinishedStreams(old)
    \/ RecvResponseCreated
    \/ \E rid \in Rids, d \in Deltas : RecvTextDelta(rid, d)
    \/ \E rid \in Rids, t \in FinalTexts : RecvTextDone(rid, t)
    \/ \E rid \in Rids : RecvResponseDone(rid)
    \/ RecvError
    \/ TransportDrop
    \/ ListenClosed
    \/ ListenEnds
    \/ MonitorExits
    \/ \E t \in BOOLEAN : MonitorDetectsDead(t)
    \/ ReconnectBegin(FALSE, FALSE)
    \/ ReconnectWake(TRUE)

Spec == Init /\ [][Next]_vars

\* MuxSpec: the controllers of two users multiplexed on one client whose transport
\* may drop; no callbacks are installed.
MuxNext ==
    \/ Connect(TRUE)
    \/ \E u \in Users, f \in 0..2 : SendUserMessage(u, TRUE, f)
    \/ \E u \in Users : CancelStream(u)
    \/ RecvResponseCreated
    \/ \E rid \in Rids, d \in Deltas : RecvTextDelta(rid, d)
    \/ \E rid \in Rids, t \in FinalTexts : RecvTextDone(rid, t)
    \/ \E rid \in Rids : RecvResponseDone(rid)
    \/ RecvError
    \/ TransportDrop

MuxSpec == Init /\ [][MuxNext]_vars

\* DuoSpec: the controllers of two users, with or without callbacks, on one
\* client whose transport holds; turns end with response.done
DuoNext ==
    \/ Connect(TRUE)
    \/ \E u \in Users : SendUserMessage(u, TRUE, 0)
    \/ \E u \in Users : SetStreamCallbacks(u)
    \/ \E u \in Users : CancelStream(u)
    \/ RecvResponseCreated
    \/ \E rid \in Rids, d \in Deltas : RecvTextDelta(rid, d)
    \/ \E rid \in Rids : RecvResponseDone(rid)
    \/ RecvError

DuoSpec == Init /\ [][DuoNext]_vars

\* TurnsSpec: the turns of two users on one client, one at a time at the
\* upstream: a user sends only when no turn waits for its response.created, and
\* every response.created answers the turn that waits
TurnsNext ==
    \/ Connect(TRUE)
    \/ \E u \in Users : Awaiting(active_streams) = {} /\ SendUserMessage(u, TRUE, 0)
    \/ \E u \in Users : SetStreamCallbacks(u)
    \/ ResponseCreatedFor(FALSE, TRUE)
    \/ \E rid \in Rids, d \in Deltas : RecvTextDelta(rid, d)
    \/ \E rid \in Rids, t \in FinalTexts : RecvTextDone(rid, t)
    \/ \E rid \in Rids : RecvResponseDone(rid)

TurnsSpec == Init /\ [][TurnsNext]_vars

\* ReconnectSpec: the connection of one client with failing handshakes, no streams
ReconnectNext ==
    \/ \E ok \in BOOLEAN : Connect(ok)
    \/ ConnectStart
    \/ \E ok \in BOOLEAN : ConnectFinish(ok)
    \/ Disconnect(FALSE)
    \/ TransportDrop
    \/ ListenClosed
    \/ ListenEnds
    \/ MonitorExits
    \/ \E t \in BOOLEAN : MonitorDetectsDead(t)
    \/ \E cooled \in BOOLEAN, recent \in BOOLEAN : ReconnectBegin(cooled, recent)
    \/ \E ok \in BOOLEAN : ReconnectWake(ok)

ReconnectSpec == Init /\ [][ReconnectNext]_vars

\* The tasks of the client are scheduled by the event loop: a task that can take
\* its next step takes it. Calls from outside (connect, disconnect) and the loss of
\* the transport are not forced.
FairReconnectSpec ==
    /\ ReconnectSpec
    /\ WF_vars(ListenClosed)
    /\ WF_vars(MonitorExits)
    /\ WF_vars(\E cooled \in BOOLEAN, recent \in BOOLEAN : ReconnectBegin(cooled, recent))
    /\ WF_vars(\E ok \in BOOLEAN : ReconnectWake(ok))

\* BridgeSpec: one user's turns with function calls on a client whose transport
\* may drop
BridgeNext ==
    \/ Connect(TRUE)
    \/ \E u \in Solo : SendUserMessage(u, TRUE, 0)
    \/ \E u \in Solo : CancelStream(u)
    \/ RecvResponseCreated
    \/ \E rid \in Rids, d \in Deltas : RecvTextDelta(rid, d)
    \/ \E rid \in Rids : RecvResponseDone(rid)
    \/ \E call \in Calls : RecvFunctionCallDelta(call)
    \/ \E call \in Calls, parses \in BOOLEAN, known \in BOOLEAN :
          RecvFunctionCallDone(call, parses, known)
    \/ \E handler_ok \in BOOLEAN : FunctionReturns(handler_ok)
    \/ ContinueAfterFunction
    \/ TransportDrop

BridgeSpec == Init /\ [][BridgeNext]_vars

\* SharedBridgeSpec: the turns of two users on one client, with function calls
\* of known functions in the responses the upstream has announced; the
\* transport holds
SharedBridgeNext ==
    \/ Connect(TRUE)
    \/ \E u \in Users : SendUserMessage(u, TRUE, 0)
    \/ \E u \in Users : CancelStream(u)
    \/ RecvResponseCreated
    \/ \E rid \in Rids : RecvResponseDone(rid)
    \/ \E rid \in 1..(next_rid - 1), call \in Calls :
          FunctionCallDone(rid, call, TRUE, TRUE)
    \/ \E handler_ok \in BOOLEAN : FunctionReturns(handler_ok)
    \/ ContinueAfterFunction

SharedBridgeSpec == Init /\ [][SharedBridgeNext]_vars

\* WatchSpec: one user's turns with the watchdog tasks of the responses
WatchNext ==
    \/ Connect(TRUE)
    \/ \E u \in Solo : SendUserMessage(u, TRUE, 0)
    \/ \E u \in Solo : CancelStream(u)
    \/ ResponseCreated(TRUE)
    \/ \E rid \in Rids, d \in Deltas : RecvTextDelta(rid, d)
    \/ \E rid \in Rids : RecvResponseDone(rid)
    \/ RecvError
    \/ \E rid \in Rids : WatchdogFires(rid)
    \/ TransportDrop

WatchSpec == Init /\ [][WatchNext]_vars

\* DentalSpec: a DentalRealtimeClient carrying one user's conversation over a
\* transport that may drop and handshakes that may fail
DentalNext ==
    \/ \E ok \in BOOLEAN : DentalConnect(ok)
    \/ \E u \in Solo, ok \in BOOLEAN, f \in 0..2 : DentalSendUserMessage(u, ok, f)
    \/ \E u \in Solo, ok \in BOOLEAN : DentalCancelStream(u, ok)
    \/ \E old \in SUBSET (1..Len(dental_streams)) : DentalCleanupStaleStreams(old)
    \/ DentalTick
    \/ DentalResponseCreated
    \/ \E rid \in Rids \cup {None}, d \in Deltas, due \in BOOLEAN :
          DentalTextDelta(rid, d, due)
    \/ \E rid \in Rids \cup {None}, t \in FinalTexts : DentalTextDone(rid, t)
    \/ \E rid \in Rids, quota \in BOOLEAN : DentalResponseFailed(rid, quota)
    \/ \E rid \in Rids, t \in FinalTexts : DentalResponseDone(rid, t)
    \/ \E open \in BOOLEAN : DentalFunctionCall(open)
    \/ DentalListenClosed
    \/ \E ok \in BOOLEAN : DentalListenReconnects(ok)
    \/ DentalTransportDrop

DentalSpec == Init /\ [][DentalNext]_vars

\* PoolSpec: the pool and the clients it creates
PoolNext ==
    \/ \E u \in Users, ok \in BOOLEAN : GetConnectionForUser(u, ok)
    \/ \E u \in Users, ok \in BOOLEAN, sent_ok \in BOOLEAN, up \in BOOLEAN :
          PoolSendUserMessage(u, ok, sent_ok, up)
    \/ \E u \in Users : ReleaseUserConnection(u)
    \/ \E u \in Users : CancelUserStream(u)
    \/ \E u \in Users : CancelUserStreams(u)
    \/ \E r \in SUBSET (1..MaxConns) : HealthCheck(r)
    \/ \E i \in 1..MaxConns : ConnGoesIdle(i)
    \/ \E i \in 1..MaxConns : ClientDrop(i)
    \/ \E i \in 1..MaxConns : ClientReconnect(i)

PoolSpec == PoolInit /\ [][PoolNext]_vars

\* RateSpec: the sends of two users through the pool, observed
RateNext ==
    \/ \E u \in Users, ok \in BOOLEAN, sent_ok \in BOOLEAN, up \in BOOLEAN :
          SendThrough(u, ok, sent_ok, up, MaxSends)
    \/ \E u \in Users : ReleaseUserConnection(u)
    \/ \E i \in 1..MaxConns : ClientDrop(i)
    \/ \E i \in 1..MaxConns : ClientReconnect(i)

RateSpec == Init /\ [][RateNext]_vars

\* LockSpec: two tasks call the pool at the same time; their calls are followed
\* from await to await, while health_check and release_user_connection (which
\* waits for the lock) run between them. A cancel_user_streams whose
\* cancel_stream does not await comes only when none for that user is awaiting:
\* both would find the same controller.
LockNext ==
    \/ \E t \in Tasks, u \in Users, op \in {"get", "send"} : PoolCall(t, u, op)
    \/ \E t \in Tasks : LockAcquire(t)
    \/ \E t \in Tasks, ok \in BOOLEAN : ConnectReturns(t, ok)
    \/ \E t \in Tasks, sent_ok \in BOOLEAN, up \in BOOLEAN : SendReturns(t, sent_ok, up)
    \/ \E u \in Users : lock = 0 /\ ReleaseUserConnection(u)
    \/ \E u \in Users :
          /\ \A t \in Tasks : ~(tasks[t].pc = "cancelling" /\ tasks[t].user = u)
          /\ CancelUserStreams(u)
    \/ \E t \in Tasks, u \in Users : CancelSuspends(t, u)
    \/ \E t \in Tasks : CancelResumes(t)
    \/ HealthCheck({})
    \/ \E i \in 1..MaxConns : ConnGoesIdle(i)
    \/ \E i \in 1..MaxConns : ClientDrop(i)

LockSpec == Init /\ [][LockNext]_vars

\* ChurnSpec: connections come and go. Every connect() succeeds, and a connection
\* leaves the list when health_check finds its user inactive.
ChurnNext ==
    \/ \E u \in Users : GetConnectionWithin(u, TRUE, MaxChurn)
    \/ \E u \in Users : ReleaseUserConnection(u)
    \/ \E u \in Users : CancelUserStreams(u)
    \/ HealthCheck({})
    \/ \E i \in 1..MaxChurn : ConnGoesIdle(i)
    \/ \E i \in 1..MaxChurn : ClientDrop(i)

ChurnSpec == PoolInit /\ [][ChurnNext]_vars

\* ------------------------------------------------------------------ claims
InboundOps == {"response.created", "response.text.delta", "response.text.done",
               "response.done", "error"}

HasCancel(msgs) == \E k \in 1..Len(msgs) : msgs[k].type = "response.cancel"

C2_DoneAtMostOncePerTurn ==
    [][/\ \A k \in 1..Len(fired') :
             fired'[k].cb = "done" =>
                 LET i == IndexOfUser(active_streams, fired'[k].user)
                 IN i # 0 /\ ~active_streams[i].done_fired
       /\ last_op'.op \in {"response.text.done", "response.done"} =>
             LET i == FindStreamIndex(active_streams, last_op'.rid)
             IN (i # 0 /\ active_streams[i].state = DONE) =>
                    /\ active_streams' = active_streams
                    /\ fired' = <<>>]_vars

\* C3: DONE, ERROR and CANCELLED are absorbing under inbound events (state and
\* accumulated_text stay), and a user gets a non-terminal controller again only by
\* send_user_message for that user, which yields IDLE with no response id.
C3_TerminalAbsorbing ==
    [][/\ last_op'.op \in InboundOps =>
             \A i \in 1..Len(active_streams) :
                 active_streams[i].state \in Terminal =>
                     /\ Len(active_streams') = Len(active_streams)
                     /\ active_streams'[i].state = active_streams[i].state
                     /\ active_streams'[i].accumulated_text =
                            active_streams[i].accumulated_text
       /\ \A u \in Users :
             LET i == IndexOfUser(active_streams, u)
                 j == IndexOfUser(active_streams', u)
             IN (/\ i = 0 \/ active_streams[i].state \in Terminal
                 /\ j # 0
                 /\ active_streams'[j].state \notin Terminal) =>
                    /\ last_op'.op = "send_user_message"
                    /\ last_op'.user = u
                    /\ active_streams'[j].state = IDLE
                    /\ active_streams'[j].response_id = None]_vars

\* C4: when the receive loop sees the transport closed while a controller is
\* STREAMING and disconnect() has not been called, that controller goes to ERROR,
\* its error callback is invoked exactly once, and a reconnect is scheduled.
C4_CloseMarksStreamingError ==
    [][(last_op'.op = "listen_closed" /\ should_reconnect) =>
          \A i \in 1..Len(active_streams) :
              active_streams[i].state = STREAMING =>
                  /\ active_streams'[i].state = ERROR
                  /\ active_streams[i].callbacks =>
                        fired' = <<[cb |-> "error", user |-> active_streams[i].user_id,
                                    arg |-> <<>>]>>
                  /\ reconnecting'
                  /\ reconnect_task' # "none"]_vars

\* C5: cancel_stream(u) for a user with no controller raises nothing, sends nothing
\* and changes neither active_streams nor the connection; and after any
\* cancel_stream(u) the user has no controller, so a second call is that no-op.
C5_CancelIdempotent ==
    [][last_op'.op = "cancel_stream" =>
          /\ IndexOfUser(active_streams, last_op'.user) = 0 =>
                /\ last_op'.ok
                /\ sent' = <<>>
                /\ removed' = <<>>
                /\ active_streams' = active_streams
                /\ UNCHANGED conn_vars
          /\ IndexOfUser(active_streams', last_op'.user) = 0]_vars

\* cancel_stream for a user without controller has run while the other user streams
C5_Witness ==
    /\ last_op.op = "cancel_stream"
    /\ removed = <<>>
    /\ \E i \in 1..Len(active_streams) :
          /\ active_streams[i].user_id # last_op.user
          /\ active_streams[i].state = STREAMING
          /\ active_streams[i].response_id # None

\* C6: after cancel_stream(u) for a user with a non-terminal controller, the
\* controller is CANCELLED and active_streams has no entry for u, also when the
\* response.cancel send fails.
C6_CancelAlwaysEffective ==
    [][last_op'.op = "cancel_stream" =>
          LET i == IndexOfUser(active_streams, last_op'.user)
          IN (i # 0 /\ active_streams[i].state \notin Terminal) =>
                /\ IndexOfUser(active_streams', last_op'.user) = 0
                /\ Len(removed') = 1
                /\ removed'[1].user_id = last_op'.user
                /\ removed'[1].state = CANCELLED]_vars

ConnOf(conns, uc, u) == conns[ConnIndex(conns, uc[u])]

\* C8: get_connection_for_user(u) for a user whose connection is still assigned,
\* healthy and connected returns that connection's id and creates nothing, whatever
\* was assigned to other users meanwhile; and the id a call returns is the id of
\* the connection the user is routed to afterwards.
C8_StickyRouting ==
    [][pool_op'.op = "get_connection_for_user" =>
          LET u == pool_op'.user
          IN /\ (/\ user_connections[u] # 0
                 /\ ConnOf(connections, user_connections, u).is_healthy
                 /\ ConnOf(connections, user_connections, u).is_connected) =>
                    /\ pool_op'.ok
                    /\ ~pool_op'.created
                    /\ pool_op'.conn_id =
                           ConnOf(connections, user_connections, u).connection_id
                    /\ connections' = connections
                    /\ user_connections' = user_connections
             /\ pool_op'.ok =>
                    /\ user_connections'[u] # 0
                    /\ ConnOf(connections', user_connections', u).connection_id =
                           pool_op'.conn_id]_vars

\* a second call for a user was served by its connection while another user has
\* a connection of its own
C8_Witness ==
    /\ pool_op.op = "get_connection_for_user"
    /\ pool_op.ok
    /\ ~pool_op.created
    /\ \E v \in Users \ {pool_op.user} : user_connections[v] # 0

\* least_connections as the claim has it: among the connections that are healthy,
\* connected and below max_users_per_connection, the fewest active users, then the
\* lowest connection id
LeastLoaded(conns, max) ==
    LET av == {i \in 1..Len(conns) :
                  /\ conns[i].is_healthy
                  /\ conns[i].is_connected
                  /\ ActiveCount(conns[i]) < max}
    IN {i \in av : \A j \in av :
            \/ ActiveCount(conns[i]) < ActiveCount(conns[j])
            \/ /\ ActiveCount(conns[i]) = ActiveCount(conns[j])
               /\ conns[i].connection_id <= conns[j].connection_id}

\* C9: a user without connection who is assigned by get_connection_for_user goes
\* to the connection with the fewest active users before the call, ties broken by
\* the lowest connection id, whenever some connection can take a user.
C9_LeastConnectionsAssignment ==
    [][(/\ pool_op'.op = "get_connection_for_user"
        /\ pool_op'.ok
        /\ user_connections[pool_op'.user] = 0
        /\ LeastLoaded(connections, max_users_per_connection) # {}) =>
          \E i \in LeastLoaded(connections, max_users_per_connection) :
              /\ pool_op'.conn_id = connections[i].connection_id
              /\ user_connections'[pool_op'.user] = connections[i].oid
              /\ ~pool_op'.created]_vars

C11_PoolSizeRespected ==
    /\ [](Len(connections) <= pool_size)
    /\ [][(pool_op'.op \in {"get_connection_for_user", "send_user_message"}
            /\ pool_op'.created)
          => (/\ ~Reusable(connections, user_connections, pool_op'.user)
              /\ Len(connections) < pool_size)]_vars

\* C12: the connection_id values of the connections the pool holds are pairwise
\* distinct, whatever connections were created and removed before.
C12_ConnectionIdsUnique ==
    \A i \in 1..Len(connections), j \in 1..Len(connections) :
        connections[i].connection_id = connections[j].connection_id => i = j

\* C13: the breaker is opened for max_reconnect_attempts only at a count of exactly
\* 10 failed attempts; once 10 attempts in a row have failed the breaker is open, or
\* the _reconnect run that opens it is on its way; and a _reconnect run that finds
\* the breaker open before the cool-down is over makes no attempt.
C13_BreakerOpensAtMaxAttempts ==
    /\ [][(circuit_breaker_open' /\ should_reconnect /\ ~should_reconnect'
            /\ last_op'.op = "reconnect_begin")
          => reconnect_attempts = MaxReconnectAttempts]_vars
    /\ [](reconnect_attempts >= MaxReconnectAttempts
            => circuit_breaker_open \/ reconnect_task # "none")
    /\ [][(last_op'.op = "reconnect_begin" /\ circuit_breaker_open
            /\ last_op'.arg = <<>>)
          => (reconnect_task' = "none" /\ circuit_breaker_open'
              /\ reconnect_attempts' = reconnect_attempts)]_vars

\* C14: a breaker opened for max_reconnect_attempts does not stay open for ever:
\* the reconnect run after the cool-down closes it.
C14_BreakerClosesAfterCoolDown ==
    (circuit_breaker_open /\ reconnect_attempts >= MaxReconnectAttempts)
        ~> ~circuit_breaker_open

C16_FunctionFailuresContained ==
    /\ [][(last_op'.op = "response.function_call_arguments.done"
            /\ last_op'.arg = <<"unknown">>)
          => (/\ fired' = <<>>
              /\ sent' = <<FunctionOutput(TRUE)>>
              /\ bridge'.failed)]_vars
    /\ [][(last_op'.op = "function_returns" /\ last_op'.arg[1] = "raises")
          => (/\ last_op'.arg[2] = "failure"
              /\ ws_open => (sent' = <<FunctionOutput(TRUE)>> /\ ~bridge'.failed))]_vars
    /\ [][last_op'.op \in {"response.function_call_arguments.done",
                            "function_returns", "continue_after_function"}
          => listening']_vars

C16_Witness ==
    /\ last_op = Op("function_returns", 0, None, <<"raises", "failure">>, TRUE)
    /\ sent = <<FunctionOutput(TRUE)>>
    /\ bridge.stage = "sleeping"
    /\ listening

\* C17: a watchdog that fires while the controller of its response is not
\* terminal and has no text sends one response.cancel and then one
\* response.create; a watchdog that finds text or a terminal controller sends
\* nothing.
C17_WatchdogCancelsAndRetries ==
    [][last_op'.op = "watchdog_fires"
       => LET i == FindStreamIndex(active_streams, last_op'.rid)
          IN IF i # 0 /\ active_streams[i].accumulated_text = <<>>
                /\ active_streams[i].state \notin Terminal /\ ws_open
             THEN sent' = <<Msg("response.cancel", TRUE), Msg("response.create", TRUE)>>
             ELSE i # 0 => sent' = <<>>]_vars

\* C18: the delta callback of a text-delta is invoked while that event is handled,
\* before the next event is read, with the text of all deltas received so far in
\* their order; no delta callback is invoked by any other step, so when a done or
\* error callback is invoked the callbacks of all earlier deltas have been.
C18_CallbacksInArrivalOrder ==
    [][/\ last_op'.op = "response.text.delta" =>
             LET i == FindStreamIndex(active_streams, last_op'.rid)
             IN IF i # 0 /\ active_streams[i].callbacks
                THEN fired' = <<[cb |-> "delta", user |-> active_streams[i].user_id,
                                 arg |-> active_streams'[i].accumulated_text]>>
                ELSE fired' = <<>>
       /\ last_op'.op # "response.text.delta" =>
             \A k \in 1..Len(fired') : fired'[k].cb # "delta"]_vars

C18_Witness ==
    /\ last_op.op = "response.text.delta"
    /\ fired = <<[cb |-> "delta", user |-> 1, arg |-> <<"a", "b">>]>>

\* C19: within one turn the error callback is invoked at most once, and once it
\* has been invoked no delta callback is invoked for that turn.
C19_ErrorCallbackFinal ==
    [][\A k \in 1..Len(fired') :
          fired'[k].cb \in {"error", "delta"} =>
              LET i == IndexOfUser(active_streams, fired'[k].user)
              IN i # 0 /\ ~active_streams[i].error_fired]_vars

\* C20: when disconnect() has completed, auto-reconnect is disabled, no reconnect
\* task is left to start an attempt, the receive and monitor loops are stopped,
\* the client owns no StreamControllers, and every controller that was STREAMING
\* at the teardown left in state ERROR; a reconnect task that wakes while
\* auto-reconnect is disabled makes no connection attempt.
C20_DisconnectTearsDown ==
    [][/\ last_op'.op = "disconnect" =>
             /\ ~should_reconnect'
             /\ reconnect_task' = "none" /\ ~reconnecting'
             /\ ~listening' /\ ~monitoring'
             /\ ~is_connected'
             /\ active_streams' = <<>>
             /\ Len(removed') = Len(active_streams)
             /\ \A k \in 1..Len(removed') :
                    /\ removed'[k].user_id = active_streams[k].user_id
                    /\ removed'[k].state # STREAMING
                    /\ active_streams[k].state = STREAMING => removed'[k].state = ERROR
       /\ (last_op'.op = "reconnect_wake" /\ ~should_reconnect) =>
             /\ sent' = <<>>
             /\ is_connected' = is_connected
             /\ reconnect_attempts' = reconnect_attempts]_vars

\* C21: after a send_user_message(u, ...) that returned, the client holds exactly
\* one controller for u and it is a fresh one (IDLE, empty accumulated_text, no
\* response id), and of the messages the call wrote exactly one is a
\* conversation.item.create and exactly one a response.create, the item first,
\* both taken by the transport.
C21_SendStartsFreshTurn ==
    [][(last_op'.op = "send_user_message" /\ last_op'.ok) =>
          LET u == last_op'.user
              mine == {i \in 1..Len(active_streams') : active_streams'[i].user_id = u}
              items == {k \in 1..Len(sent') : sent'[k].type = "conversation.item.create"}
              creates == {k \in 1..Len(sent') : sent'[k].type = "response.create"}
          IN /\ Cardinality(mine) = 1
             /\ \A i \in mine : active_streams'[i] = NewStream(u)
             /\ Cardinality(items) = 1 /\ Cardinality(creates) = 1
             /\ \A k \in items, l \in creates : k < l /\ sent'[k].ok /\ sent'[l].ok]_vars

\* a send for a user whose earlier turn was streaming under a response id
C21_Witness ==
    /\ last_op.op = "send_user_message" /\ last_op.ok
    /\ removed = <<[user_id |-> last_op.user, state |-> CANCELLED]>>
    /\ sent = <<Msg("response.cancel", TRUE), Msg("conversation.item.create", TRUE),
                Msg("response.create", TRUE)>>
    /\ Len(active_streams) = 2

\* C22: after cancel_stream(u) of a DentalRealtimeClient for a user with a stream,
\* active_streams has no entry for u, response_to_user maps no id to u, and every
\* id that was mapped to u is in completed_responses.
C22_CancelCompletesResponses ==
    [][(last_op'.op = "dental_cancel_stream"
          /\ IndexOfUser(dental_streams, last_op'.user) # 0) =>
             /\ IndexOfUser(dental_streams', last_op'.user) = 0
             /\ MappedTo(response_to_user', last_op'.user) = {}
             /\ MappedTo(response_to_user, last_op'.user) \subseteq completed_responses']_vars

\* C23: an error event moves every STREAMING controller to ERROR and leaves every
\* other controller as it was; the error callback is invoked once for each
\* STREAMING controller that has one, in the order of the controllers, and for no
\* other controller.
C23_ErrorReachesStreaming ==
    [][last_op'.op = "error" =>
          LET hit == {i \in 1..Len(active_streams) :
                         active_streams[i].state = STREAMING}
              called(u) == {k \in 1..Len(fired') : fired'[k].user = u}
          IN /\ Len(active_streams') = Len(active_streams)
             /\ \A i \in 1..Len(active_streams) :
                    IF i \in hit
                    THEN /\ active_streams'[i].state = ERROR
                         /\ active_streams'[i].user_id = active_streams[i].user_id
                         /\ active_streams'[i].accumulated_text =
                                active_streams[i].accumulated_text
                         /\ Cardinality(called(active_streams[i].user_id)) =
                                IF active_streams[i].callbacks THEN 1 ELSE 0
                    ELSE /\ active_streams'[i] = active_streams[i]
                         /\ called(active_streams[i].user_id) = {}
             /\ \A k \in 1..Len(fired') : fired'[k].cb = "error"]_vars

\* an error event that found one controller STREAMING and the other DONE, both
\* with callbacks
C23_Witness ==
    /\ last_op.op = "error"
    /\ Len(active_streams) = 2
    /\ \E i, j \in 1..2 :
          /\ active_streams[i].state = ERROR /\ active_streams[i].error_fired
          /\ active_streams[j].state = DONE /\ active_streams[j].callbacks
          /\ fired = <<[cb |-> "error", user |-> active_streams[i].user_id, arg |-> <<>>]>>

\* C24: response.created with id R binds R to the first controller, in creation
\* order, that has no response id and is not terminal, and changes no other
\* controller: one that has a response id keeps it, a terminal one is not bound.
C24_CreatedBindsFirstUnbound ==
    [][last_op'.op = "response.created" =>
          LET R == last_op'.rid
              free == {i \in 1..Len(active_streams) :
                          /\ active_streams[i].response_id = None
                          /\ active_streams[i].state \notin Terminal}
          IN /\ Len(active_streams') = Len(active_streams)
             /\ \A i \in 1..Len(active_streams) :
                    active_streams'[i] =
                        IF free # {} /\ i = Min(free)
                        THEN [active_streams[i] EXCEPT !.response_id = R]
                        ELSE active_streams[i]]_vars

\* C25: response.done for a turn whose done callback has not run (no text-done was
\* processed) completes the turn and invokes the done callback exactly once;
\* response.done for a turn that text-done already finalized invokes no callback.
C25_ResponseDoneFallback ==
    [][last_op'.op = "response.done" =>
          LET i == FindStreamIndex(active_streams, last_op'.rid)
          IN IF i # 0 /\ active_streams[i].callbacks
                      /\ active_streams[i].state \in {IDLE, STREAMING}
                      /\ ~active_streams[i].done_fired
             THEN /\ active_streams'[i].state = DONE
                  /\ Len(fired') = 1
                  /\ fired'[1].cb = "done"
                  /\ fired'[1].user = active_streams[i].user_id
             ELSE fired' = <<>>]_vars

\* C26: a pool.send_user_message that fails marks the connection unhealthy and
\* takes the user off it exactly when the connection has had three or more
\* errors in a row or more than 30% of its sends have failed.
C26_UnhealthyAtThreshold ==
    [][(pool_op'.op = "send_user_message" /\ ~pool_op'.ok /\ pool_op'.conn_id # -1) =>
          LET u == pool_op'.user
              r == GetConnection(connections, user_connections, next_oid, u, TRUE)
              oid == r[2][u]
              c == connections'[ConnIndex(connections', oid)]
              over == \/ c.streak >= 3
                      \/ c.total_errors * 10 > 3 * (c.served + c.total_errors)
          IN IF over
             THEN ~c.is_healthy /\ u \notin c.active_users /\ user_connections'[u] # oid
             ELSE c.is_healthy /\ u \in c.active_users /\ user_connections'[u] = oid]_vars

\* C27: of the connections that health_check() leaves in the pool, one whose
\* client was disconnected and that had users has had connect() attempted and is
\* healthy exactly if it is connected now; one that was disconnected without
\* users is unhealthy and still disconnected; one that was connected keeps its
\* health. This holds for every connection of the list, whatever happened to
\* the connections before it.
C27_HealthCheckReconnects ==
    [][pool_op'.op = "health_check" =>
          \A i \in 1..Len(connections) :
             LET c == connections[i]
                 j == ConnIndex(connections', c.oid)
                 d == connections'[j]
             IN j # 0 =>
                  IF c.is_connected
                  THEN d.is_connected /\ d.is_healthy = c.is_healthy
                  ELSE IF ActiveCount(c) = 0
                  THEN ~d.is_connected /\ ~d.is_healthy
                  ELSE d.is_healthy = d.is_connected]_vars

\* a health check that failed to reconnect the first connection and reconnected
\* the second
C27_Witness ==
    /\ pool_op.op = "health_check"
    /\ Len(connections) = 2
    /\ ~connections[1].is_connected /\ ~connections[1].is_healthy
    /\ ActiveCount(connections[1]) > 0
    /\ connections[2].is_connected /\ connections[2].is_healthy
    /\ ActiveCount(connections[2]) > 0

\* C28: when health_check() meets a connection whose errors are above the severe
\* threshold (more than 10 errors, or an error rate above 0.5) while another
\* connection is available with room, every user of that connection has moved to
\* another connection (active_users and routing table), and the connection,
\* left without users, is no longer in the pool.
C28_SevereConnectionsAreEmptied ==
    [][pool_op'.op = "health_check" =>
          \A i \in 1..Len(connections) :
             LET c == connections[i]
                 severe == c.total_errors > 10 \/ ErrorRateAbove(c, 5, 10)
                 others == SelectCandidates(connections, max_users_per_connection) \ {i}
             IN (severe /\ others # {}) =>
                  /\ ConnIndex(connections', c.oid) = 0
                  /\ \A u \in c.active_users :
                        /\ user_connections'[u] \notin {0, c.oid}
                        /\ LET t == ConnIndex(connections', user_connections'[u])
                           IN t # 0 /\ u \in connections'[t].active_users]_vars

\* C29: health_check() evicts exactly the routing entries whose connection was
\* last used over an hour ago. An entry is one of those when an hour has passed
\* since the pool stamped the connection and the user has not been handed the
\* connection or sent through it since, which is the case unless that was the
\* operation just before. An evicted user is in no routing entry and in no
\* active_users, a connection whose users were all evicted is out of the pool,
\* and every other entry, with its connection and its membership, is as before.
C29_EvictsIdleEntriesOnly ==
    [][pool_op'.op = "health_check" =>
          \A u \in Users :
             LET oid == user_connections[u]
                 c == connections[ConnIndex(connections, oid)]
                 just_used == /\ pool_op.op \in {"get_connection_for_user",
                                                 "send_user_message"}
                              /\ pool_op.user = u
                              /\ pool_op.conn_id # -1
                 j == ConnIndex(connections', oid)
             IN oid # 0 =>
                  IF c.idle /\ ~just_used
                  THEN /\ user_connections'[u] = 0
                       /\ \A k \in 1..Len(connections') :
                              u \notin connections'[k].active_users
                       /\ c.active_users \subseteq {u} => j = 0
                  ELSE /\ user_connections'[u] = oid
                       /\ j # 0
                       /\ connections'[j].active_users = c.active_users]_vars

\* C30: when _send_function_result has sent a function result and slept, the
\* response.create continuation is sent iff the controller of the user whose
\* turn triggered the call is non-terminal at that moment; with that controller
\* DONE, ERROR, CANCELLED or removed nothing is sent, whatever the controllers
\* of other users are.
C30_ContinuationFollowsOriginator ==
    [][last_op'.op = "continue_after_function" =>
          LET i == IndexOfUser(active_streams, bridge.origin)
              open == /\ bridge.origin # 0
                      /\ i # 0
                      /\ active_streams[i].state \notin Terminal
          IN (sent' = <<Msg("response.create", TRUE)>>) <=> open]_vars

\* C31: every pool.send_user_message call that is routed to a connection adds
\* one to that connection's total_requests, and one to its total_errors iff the
\* send failed; no step lowers a counter of a connection that stays in the pool,
\* and total_errors <= total_requests throughout.
C31_CountersCountEverySend ==
    /\ [][(pool_op'.op = "send_user_message" /\ pool_op'.conn_id # -1) =>
             LET oid == IF pool_op'.created THEN next_oid
                        ELSE user_connections[pool_op'.user]
                 i == ConnIndex(connections, oid)
                 j == ConnIndex(connections', oid)
                 req == IF i = 0 THEN 0 ELSE connections[i].total_requests
                 err == IF i = 0 THEN 0 ELSE connections[i].total_errors
             IN /\ j # 0
                /\ connections'[j].total_requests = req + 1
                /\ connections'[j].total_errors =
                      err + (IF pool_op'.ok THEN 0 ELSE 1)]_vars
    /\ [][\A i \in 1..Len(connections), j \in 1..Len(connections') :
             connections[i].oid = connections'[j].oid =>
                /\ connections'[j].total_requests >= connections[i].total_requests
                /\ connections'[j].total_errors >= connections[i].total_errors]_vars
    /\ [](\A i \in 1..Len(connections) :
             connections[i].total_errors <= connections[i].total_requests)

\* C32: every step that changes the routing table or a connection's
\* active_users is taken by a task that holds the pool lock, whatever the
\* interleaving of get_connection_for_user, the failing send_user_message,
\* cancel_user_streams and health_check; and of two overlapping
\* get_connection_for_user(u) calls for an unassigned user the second creates
\* nothing and returns the connection the first one created.
C32_MutationsUnderLock ==
    /\ [][((user_connections' # user_connections)
            \/ (\E i \in 1..Len(connections) :
                   LET j == ConnIndex(connections', connections[i].oid)
                   IN j # 0 /\ connections'[j].active_users # connections[i].active_users))
           => (/\ pool_op'.task # 0
               /\ lock = pool_op'.task \/ lock' = pool_op'.task)]_vars
    /\ [][(/\ pool_op.op = "get_connection_for_user"
           /\ pool_op.created
           /\ pool_op'.op = "get_connection_for_user"
           /\ pool_op'.task \notin {0, pool_op.task}
           /\ pool_op'.user = pool_op.user
           /\ tasks[pool_op'.task].pc = "waiting")
           => (~pool_op'.created /\ pool_op'.conn_id = pool_op.conn_id)]_vars

\* C33: in DentalRealtimeClient a response.text.delta, response.text.done or
\* response.done event whose response id is already in completed_responses is
\* ignored: no stream's accumulated_text, completed or finalized changes and no
\* update or finalize callback is scheduled.
C33_CompletedResponsesIgnored ==
    [][(/\ last_op'.op \in {"dental_response.text.delta", "dental_response.text.done",
                            "dental_response.done"}
        /\ last_op'.rid \in completed_responses)
        => (dental_streams' = dental_streams /\ fired' = <<>>)]_vars

\* C34: in every state of the pool the routing table and the active_users sets
\* agree: a user is routed to a connection iff the user is in that connection's
\* active_users, so no user is in the active_users of two connections, and every
\* connection the routing table refers to is in self.connections.
C34_RoutingAgrees ==
    /\ \A u \in Users :
          user_connections[u] # 0 =>
             LET i == ConnIndex(connections, user_connections[u])
             IN i # 0 /\ u \in connections[i].active_users
    /\ \A i \in 1..Len(connections) :
          \A u \in connections[i].active_users :
             user_connections[u] = connections[i].oid

\* C35: with two users on one client and at most one turn waiting for its
\* response.created, a response.text.delta or response.text.done of response R
\* touches only the controller of the user whose turn R answers: no other
\* user's controller changes and no other user's callback is invoked.
C35_TextStaysWithItsUser ==
    [][(/\ last_op'.op \in {"response.text.delta", "response.text.done"}
        /\ owner[last_op'.rid] # 0)
        => (/\ \A i \in 1..Len(active_streams) :
                  active_streams'[i] # active_streams[i] =>
                      active_streams[i].user_id = owner[last_op'.rid]
            /\ \A k \in 1..Len(fired') : fired'[k].user = owner[last_op'.rid])]_vars

\* C36: when send_user_message has cancelled the user's turn in progress
\* (response.cancel went out) and made a fresh controller, a
\* response.text.delta or response.text.done that arrives next, under an id of
\* the responses created so far, is not appended to the new turn, changes no
\* state of it and invokes none of its callbacks.
C36_LateEventsSpareNewTurn ==
    [][(/\ last_op.op = "send_user_message"
        /\ last_op.ok
        /\ \E k \in 1..Len(sent) : sent[k].type = "response.cancel"
        /\ last_op'.op \in {"response.text.delta", "response.text.done"})
        => (active_streams' = active_streams /\ fired' = <<>>)]_vars

\* C37: for a response.function_call_arguments.done event at most one
\* function_call_output item goes out for its call id, and when the handler has
\* ended the call id is not in pending_function_calls, in every failure case:
\* arguments that do not parse, an unknown function, a handler that raises, and
\* a transport that fails at the result or at the continuation.
C37_OneOutputAndNoPendingCall ==
    /\ [][last_op'.op \in {"response.function_call_arguments.done", "function_returns"}
            => Cardinality({k \in 1..Len(sent') : sent'[k] = FunctionOutput(TRUE)}) <= 1]_vars
    /\ [][last_op'.op = "continue_after_function"
            => \A k \in 1..Len(sent') : sent'[k] # FunctionOutput(TRUE)]_vars
    /\ [][(/\ last_op'.op \in {"function_returns", "continue_after_function"}
           /\ bridge.stage # "idle"
           /\ bridge'.stage = "idle")
            => bridge.call \notin pending_function_calls']_vars

\* C38: at most one _reconnect run is in progress at a time: a trigger while one
\* is in progress starts none, and _reconnecting is true exactly while a
\* _reconnect run is in progress, so it is false after every way a run ends.
C38_ReconnectingMeansRunning ==
    /\ [](reconnecting <=> reconnect_task # "none")
    /\ [][(reconnect_task # "none" /\ reconnect_task' = "start")
             => reconnect_task = "start"]_vars

\* C39: a reconnect attempt that fails while auto-reconnect is on and the breaker
\* is closed schedules another attempt; hence a client that lost its transport
\* and has a reconnect scheduled is eventually connected again or has its
\* breaker open.
C39_FailedAttemptRetries ==
    /\ [][(/\ last_op'.op = "reconnect_wake"
           /\ ~last_op'.ok
           /\ should_reconnect'
           /\ ~circuit_breaker_open')
            => reconnect_task' # "none"]_vars
    /\ (~is_connected /\ should_reconnect /\ reconnect_task # "none")
          ~> (is_connected \/ circuit_breaker_open)

\* C40: in a turn where text deltas were followed by a function call, the
\* response.done of that first response, arriving when the bridge has just
\* requested the continuation, leaves the user's controller non-terminal, so
\* that the continuation can be bound to it, append its deltas there and end
\* with the done callback.
C40_ContinuationKeepsTurnOpen ==
    [][(/\ last_op.op = "continue_after_function"
        /\ sent = <<Msg("response.create", TRUE)>>
        /\ last_op'.op = "response.done")
        => \A i \in 1..Len(active_streams) :
              (/\ active_streams[i].response_id = last_op'.rid
               /\ active_streams[i].state = STREAMING)
                  => (/\ i <= Len(active_streams')
                      /\ active_streams'[i].state \notin Terminal)]_vars

====
